---- MODULE Spec2Model ----
(***************************************************************************)
(* A model of the ray tracer's intersection list, hit computation,         *)
(* shading recursion, object/group transforms and OBJ importer.            *)
(*                                                                         *)
(* Numbers: an f64 is modelled by an exact value.  A ray parameter t is a  *)
(* record [nan, v]; refractive indices are held in tenths (1.5 -> 15);     *)
(* matrices are exact rationals (integer entries over one denominator).    *)
(***************************************************************************)
EXTENDS Integers, Sequences, FiniteSets, TLC

VARIABLES
    xs,          \* Intersections.intersections: the Vec<Intersection>
    unordered,   \* history: some intersection was supplied out of t order
    hc,          \* HitComputation::new: the state of its containers walk
    scene,       \* World.objects as seen by each ray: what the ray hits
    lights,      \* World.lights: the number of lights
    stack,       \* the activations of World::color_at, innermost last
    result,      \* the colour the outermost color_at returned
    casts,       \* the color_at calls made since the primary ray was cast
    obj,         \* the Object a fluent chain is building (an Option)
    kept,        \* the Vec<Object> collected for the next new_group
    expected,    \* history: per leaf of obj, the product of what was applied
    keptExpected,\* history: the same for every object of kept
    budget,      \* how many more objects and calls the run may make
    seen,        \* the local rays the leaves saw in the last intersect
    panicked,    \* a panic!() has ended the program
    parser,      \* the ObjFileParser: its fields, input being the unread lines
    fed,         \* history: lines read, malformed lines read, lines to come,
                 \* the line read last
    canvas,      \* the Canvas: width, height and data, the Vec<u8> (an Option)
    ppm,         \* the text Canvas::fmt wrote, a sequence of characters
    sets,        \* how many more set_pixel calls the run may make
    shadow,      \* a World on a line, the point asked about, is_shadowed's answer
    call         \* the last call of a function of vectors: arguments and value

intVars   == <<xs, unordered>>
hcVars    == <<hc>>
shadeVars == <<scene, lights, stack, result, casts>>
objVars   == <<obj, kept, expected, keptExpected, budget, seen, panicked>>
parseVars == <<parser, fed>>
canvasVars == <<canvas, ppm, sets>>
shadowVars == <<shadow>>
callVars == <<call>>
vars      == <<xs, unordered, hc, scene, lights, stack, result, casts,
               obj, kept, expected, keptExpected, budget, seen, panicked,
               parser, fed, canvas, ppm, sets, shadow, call>>

\* what the actions of one component leave alone
notInts  == <<hcVars, shadeVars, objVars, parseVars, canvasVars, shadowVars, callVars>>
notHit   == <<intVars, shadeVars, objVars, parseVars, canvasVars, shadowVars, callVars>>
notShade == <<intVars, hcVars, objVars, parseVars, canvasVars, shadowVars, callVars>>
notObj   == <<intVars, hcVars, shadeVars, parseVars, canvasVars, shadowVars, callVars>>
notParse == <<intVars, hcVars, shadeVars, kept, expected, keptExpected, budget, seen,
              canvasVars, shadowVars, callVars>>
notCanvas == <<intVars, hcVars, shadeVars, objVars, parseVars, shadowVars, callVars>>
notShadow == <<intVars, hcVars, shadeVars, objVars, parseVars, canvasVars, callVars>>
notCanvasCall == <<intVars, hcVars, shadeVars, objVars, parseVars, shadowVars>>
notCall == <<intVars, hcVars, shadeVars, objVars, parseVars, canvasVars, shadowVars>>

-----------------------------------------------------------------------------
(* Bounds *)

\* the longest intersection list the Intersections actions build
MaxXs == 3
\* the longest vector handed to with_intersections
MaxVec == 2
\* the longest intersection list the containers walk is run on
MaxHitLen == 6
\* how many lines follow the vertex block of an OBJ text: of any kind, and
\* of well-formed face and group lines
MaxLines == 3
MaxFaceLines == 5
\* the widest and the highest Canvas, and how many set_pixel and pixel_at
\* calls a run makes
MaxWidth == 6
MaxHeight == 2
MaxSets == 1
\* the greatest coordinate of the vectors a HitComputation is built from
MaxCoordinate == 1
\* the greatest |x| a pattern is asked at
MaxStripeX == 2
\* the greatest numerator of a scale factor
MaxFactor == 2
\* how many objects a run constructs, and how many with_transform,
\* with_material and new_group calls it makes on them
MaxLeaves == 2
MaxCalls == 4

-----------------------------------------------------------------------------
(* Option<T>: None is the empty sequence, Some(v) is <<v>> *)

None == <<>>
Some(v) == <<v>>
UnwrapOr(o, d) == IF o = None THEN d ELSE o[1]

-----------------------------------------------------------------------------
(* The components that a specification does not exercise stay as built *)

HcIdle == [pc |-> "idle", int_index |-> 0, index |-> 0,
           containers |-> <<>>, n1 |-> None, n2 |-> None, rn1 |-> 0, rn2 |-> 0]

IdleInts == xs = <<>> /\ unordered = FALSE
IdleHit == hc = HcIdle
IdleShade ==
    scene = <<>> /\ lights = 0 /\ stack = <<>> /\ result = None /\ casts = 0
IdleObj ==
    /\ obj = None /\ kept = <<>> /\ expected = <<>> /\ keptExpected = <<>>
    /\ budget = [leaves |-> 0, calls |-> 0]
    /\ seen = None
    /\ panicked = FALSE
IdleParse ==
    /\ parser = [input |-> <<>>, lines_ignored |-> 0, vertices |-> <<>>,
                 normals |-> <<>>, faces |-> <<>>, current_group |-> None]
    /\ fed = [read |-> 0, malformed |-> 0, more |-> 0, last |-> <<>>]
IdleCanvas == canvas = None /\ ppm = None /\ sets = 0
IdleShadow == shadow = [lights |-> <<>>, objects |-> <<>>, point |-> 0, answer |-> None]
IdleCall == call = [fn |-> "none"]

-----------------------------------------------------------------------------
(* Intersection and its ordering: render/intersections.rs *)

\* a finite f64
F(v) == [nan |-> FALSE, v |-> v]
\* f64::NAN
NaN == [nan |-> TRUE, v |-> 0]

\* Intersection::new(t, object); an object reference is the object's address
Intersection(t, o) == [t |-> t, object |-> o]

\* impl Ord for Intersection: cmp
CmpByValueOnly(a, b) ==
    IF a.t.v > b.t.v THEN "Greater"
    ELSE IF a.t.v < b.t.v THEN "Less"
    ELSE "Equal"

Cmp(a, b) ==
    IF a.t.nan THEN "Greater"
    ELSE IF b.t.nan THEN "Less"
    ELSE IF a.t.v > b.t.v THEN "Greater"
    ELSE IF a.t.v < b.t.v THEN "Less"
    ELSE "Equal"

\* one insertion step of the sort: x moves left while it compares Less
RECURSIVE InsertTail(_, _)
InsertTail(s, x) ==
    IF s = <<>> THEN <<x>>
    ELSE IF Cmp(x, s[Len(s)]) = "Less"
         THEN Append(InsertTail(SubSeq(s, 1, Len(s) - 1), x), s[Len(s)])
         ELSE Append(s, x)

RECURSIVE SortUnstable(_)
SortUnstable(s) ==
    IF s = <<>> THEN <<>>
    ELSE InsertTail(SortUnstable(SubSeq(s, 1, Len(s) - 1)), s[Len(s)])

\* Intersections::sort
Sort(s) == SortUnstable(s)

\* Intersections::new
IntersectionsNew == <<>>

\* Intersections::with_intersections: replace the vector, then sort
WithIntersectionsNoSort(self, v) == v
WithIntersections(self, v) == Sort(v)

\* Intersections::push: append, then sort
PushNoSort(self, int) == Append(self, int)
Push(self, int) == Sort(Append(self, int))

\* int.t() > 0.0 (false for NaN)
Positive(int) == ~int.t.nan /\ int.t.v > 0
NonNegative(int) == ~int.t.nan /\ int.t.v >= 0

\* Intersections::get_hit_index: position of the first entry with t > 0
\* (1-based; 0 stands for None)
RECURSIVE PositionFrom(_, _)
PositionFrom(s, i) ==
    IF i > Len(s) THEN 0
    ELSE IF Positive(s[i]) THEN i
    ELSE PositionFrom(s, i + 1)

RECURSIVE PositionFromNonNeg(_, _)
PositionFromNonNeg(s, i) ==
    IF i > Len(s) THEN 0
    ELSE IF NonNegative(s[i]) THEN i
    ELSE PositionFromNonNeg(s, i + 1)

GetHitIndexNonNeg(s) == PositionFromNonNeg(s, 1)
GetHitIndex(s) == PositionFrom(s, 1)

\* Intersections::get_hit: the first entry with t > 0
GetHit(s) == IF GetHitIndex(s) = 0 THEN None ELSE Some(s[GetHitIndex(s)])

-----------------------------------------------------------------------------
(* The scene the intersection actions run on: World.intersect walks the    *)
(* world's objects, Object.intersect dispatches on the shape, a Group      *)
(* forwards to its children, and every leaf shape pushes its roots.        *)

\* object addresses
SphereObj == "sphere"
PlaneObj == "plane"
IntObjs == {SphereObj, PlaneObj}

\* ray parameters the shapes produce
Ts == {F(-1), F(0), F(1), F(2)}

Leaf(o) == [group |-> FALSE, object |-> o, children |-> <<>>]
Group(kids) == [group |-> TRUE, object |-> "group", children |-> kids]

\* a world of a sphere and a group that holds a plane
WorldObjects == <<Leaf(SphereObj), Group(<<Leaf(PlaneObj)>>)>>

\* the roots a leaf shape finds for one ray: a sphere pushes none or two
\* (hit1, hit2), a plane none or one
RootChoices(o) ==
    IF o = SphereObj
    THEN {<<>>} \cup {<<a, b>> : a \in Ts, b \in Ts}
    ELSE {<<>>} \cup {<<a>> : a \in Ts}

RECURSIVE PushAll(_, _, _)
PushAll(acc, o, roots) ==
    IF roots = <<>> THEN acc
    ELSE PushAll(Push(acc, Intersection(Head(roots), o)), o, Tail(roots))

\* Object::intersect / Shape::intersect / Group::intersect
RECURSIVE ObjectIntersect(_, _, _)
RECURSIVE IntersectEach(_, _, _)
ObjectIntersect(node, roots, acc) ==
    IF node.group
    THEN IntersectEach(node.children, roots, acc)
    ELSE PushAll(acc, node.object, roots[node.object])

IntersectEach(nodes, roots, acc) ==
    IF nodes = <<>> THEN acc
    ELSE IntersectEach(Tail(nodes), roots, ObjectIntersect(Head(nodes), roots, acc))

\* World::intersect
WorldIntersect(objects, roots, acc) == IntersectEach(objects, roots, acc)

RECURSIVE RootCount(_, _)
RootCount(nodes, roots) ==
    IF nodes = <<>> THEN 0
    ELSE (IF Head(nodes).group
          THEN RootCount(Head(nodes).children, roots)
          ELSE Len(roots[Head(nodes).object]))
         + RootCount(Tail(nodes), roots)

-----------------------------------------------------------------------------
(* Helpers of the properties *)

SeqsUpTo(S, n) == UNION {[1..k -> S] : k \in 0..n}

Range(s) == {s[i] : i \in 1..Len(s)}

\* ascending order of t
SortedByT(s) == \A i \in 1..(Len(s) - 1) : s[i].t.v <= s[i + 1].t.v

AllFinite(s) == \A i \in 1..Len(s) : ~s[i].t.nan

\* a vector supplied in an order that is not ascending
Descends(v) == \E i \in 1..(Len(v) - 1) : v[i].t.v > v[i + 1].t.v

-----------------------------------------------------------------------------
(* Actions on an Intersections value *)

IntSet == {Intersection(t, o) : t \in Ts, o \in IntObjs}

DoNew ==
    /\ xs' = IntersectionsNew
    /\ unordered' = FALSE
    /\ UNCHANGED notInts

DoWithIntersectionsOf(v) ==
    /\ xs' = WithIntersections(xs, v)
    /\ unordered' = Descends(v)
    /\ UNCHANGED notInts

DoWithIntersections == \E v \in SeqsUpTo(IntSet, MaxVec) : DoWithIntersectionsOf(v)

DoPushOf(int) ==
    /\ Len(xs) < MaxXs
    /\ xs' = Push(xs, int)
    /\ unordered' = (unordered \/ Descends(Append(xs, int)))
    /\ UNCHANGED notInts

DoPush == \E int \in IntSet : DoPushOf(int)

DoWorldIntersect ==
    \E roots \in [IntObjs -> UNION {RootChoices(o) : o \in IntObjs}] :
        /\ \A o \in IntObjs : roots[o] \in RootChoices(o)
        /\ Len(xs) + RootCount(WorldObjects, roots) <= MaxXs
        /\ xs' = WorldIntersect(WorldObjects, roots, xs)
        /\ unordered' = (unordered \/ Descends(
               xs \o [i \in 1..Len(roots[SphereObj]) |->
                         Intersection(roots[SphereObj][i], SphereObj)]
                  \o [i \in 1..Len(roots[PlaneObj]) |->
                         Intersection(roots[PlaneObj][i], PlaneObj)]))
        /\ UNCHANGED notInts

-----------------------------------------------------------------------------
(* HitComputation::new, the containers walk that finds n1 and n2:          *)
(* render/intersections.rs.  One action per loop iteration.                *)

\* the three glass spheres of finding_n1_and_n2_at_various_intersections
GlassA == "a"
GlassB == "b"
GlassC == "c"
GlassObjs == {GlassA, GlassB, GlassC}
\* a second glass sphere built exactly as A: another Object, another address
GlassTwin == "a'"
TwinObjs == {GlassA, GlassTwin}

\* obj.get_material().refractive_index, in tenths
RefractiveIndex(o) ==
    CASE o = GlassA -> 15
      [] o = GlassTwin -> 15
      [] o = GlassB -> 20
      [] o = GlassC -> 25
      [] OTHER -> 10

\* the default of n1 and n2: unwrap_or(1.0), in tenths
Vacuum == 10

\* containers.last().map(|obj| obj.get_material().refractive_index)
LastIndex(containers) ==
    IF containers = <<>> THEN None
    ELSE Some(RefractiveIndex(containers[Len(containers)]))

\* what PartialEq for Object compares: shape, transform and material
ValueOf(o) ==
    [shape |-> "Sphere",
     scale |-> CASE o = GlassB -> 1 [] o = GlassC -> 1 [] OTHER -> 2,
     translate |-> CASE o = GlassB -> -1 [] o = GlassC -> 1 [] OTHER -> 0,
     refractive_index |-> RefractiveIndex(o)]

RECURSIVE PositionByValue(_, _, _)
PositionByValue(containers, o, i) ==
    IF i > Len(containers) THEN 0
    ELSE IF ValueOf(containers[i]) = ValueOf(o) THEN i
    ELSE PositionByValue(containers, o, i + 1)

\* containers.iter().position(|&obj| std::ptr::eq(obj, int.object))
RECURSIVE PtrPosition(_, _, _)
PtrPosition(containers, o, i) ==
    IF i > Len(containers) THEN 0
    ELSE IF containers[i] = o THEN i
    ELSE PtrPosition(containers, o, i + 1)

\* Vec::remove(pos)
Remove(s, pos) == SubSeq(s, 1, pos - 1) \o SubSeq(s, pos + 1, Len(s))

ToggleNeverRemoves(containers, o) == Append(containers, o)

\* match position { Some(pos) => remove(pos), None => push(int.object) }
Toggle(containers, o) ==
    IF PtrPosition(containers, o, 1) # 0
    THEN Remove(containers, PtrPosition(containers, o, 1))
    ELSE Append(containers, o)

\* let mut containers = Vec::new(); let mut n1 = None; let mut n2 = None;
HCNew ==
    \E i \in 1..Len(xs) :
        /\ hc.pc \in {"idle", "done"}
        /\ hc' = [HcIdle EXCEPT !.pc = "loop", !.int_index = i, !.index = 1]
        /\ UNCHANGED notHit

\* one iteration of for (index, int) in intersections.iter().enumerate()
HCLoop ==
    /\ hc.pc = "loop"
    /\ hc.index <= Len(xs)
    /\ LET is_int == hc.index = hc.int_index
           n1 == IF is_int THEN LastIndex(hc.containers) ELSE hc.n1
           containers == Toggle(hc.containers, xs[hc.index].object)
       IN  hc' = IF is_int
                 THEN [hc EXCEPT !.n1 = n1, !.containers = containers,
                                 !.n2 = LastIndex(containers), !.pc = "exit"]
                 ELSE [hc EXCEPT !.n1 = n1, !.containers = containers,
                                 !.index = hc.index + 1]
    /\ UNCHANGED notHit

\* after the loop: n1: n1.unwrap_or(1.0), n2: n2.unwrap_or(1.0)
HCFinish ==
    /\ \/ hc.pc = "exit"
       \/ hc.pc = "loop" /\ hc.index > Len(xs)
    /\ hc' = [hc EXCEPT !.pc = "done",
                        !.rn1 = UnwrapOr(hc.n1, Vacuum),
                        !.rn2 = UnwrapOr(hc.n2, Vacuum)]
    /\ UNCHANGED notHit

\* the intersection lists the walk is run on: with_intersections of a vector
\* whose k-th entry has t = k and any of the three spheres as its object
HitVecs ==
    UNION {{[i \in 1..k |-> Intersection(F(i), objs[i])] : objs \in [1..k -> GlassObjs]}
           : k \in 1..MaxHitLen}

InitHit ==
    /\ xs \in {WithIntersections(IntersectionsNew, v) : v \in HitVecs}
    /\ unordered = FALSE
    /\ hc = HcIdle
    /\ IdleShade
    /\ IdleObj
    /\ IdleParse
    /\ IdleCanvas
    /\ IdleShadow
    /\ IdleCall

NextHit == HCNew \/ HCLoop \/ HCFinish

SpecHit == InitHit /\ [][NextHit]_vars

\* the walk over the intersections of a ray with two spheres built alike
TwinVecs ==
    UNION {{[i \in 1..k |-> Intersection(F(i), objs[i])] : objs \in [1..k -> TwinObjs]}
           : k \in 1..MaxHitLen}

InitTwins ==
    /\ xs \in {WithIntersections(IntersectionsNew, v) : v \in TwinVecs}
    /\ unordered = FALSE
    /\ hc = HcIdle
    /\ IdleShade
    /\ IdleObj
    /\ IdleParse
    /\ IdleCanvas
    /\ IdleShadow
    /\ IdleCall

SpecTwins == InitTwins /\ [][NextHit]_vars

-----------------------------------------------------------------------------
InitInts ==
    /\ xs = IntersectionsNew
    /\ unordered = FALSE
    /\ IdleHit
    /\ IdleShade
    /\ IdleObj
    /\ IdleParse
    /\ IdleCanvas
    /\ IdleShadow
    /\ IdleCall

NextInts == DoNew \/ DoWithIntersections \/ DoPush \/ DoWorldIntersect

SpecInts == InitInts /\ [][NextInts]_vars

\* the same calls with intersections whose t may be NaN
NaNInts == {Intersection(NaN, o) : o \in IntObjs}

NextNaN ==
    \/ DoNew
    \/ \E v \in SeqsUpTo(IntSet \cup NaNInts, MaxVec) : DoWithIntersectionsOf(v)
    \/ \E int \in IntSet \cup NaNInts : DoPushOf(int)

SpecNaN == InitInts /\ [][NextNaN]_vars

-----------------------------------------------------------------------------
(* World shading recursion: render/world.rs.                               *)
(*                                                                         *)
(* A ray stands for what intersecting it with the world's objects yields:  *)
(* no hit, or the HitComputation of its hit (the material's reflective     *)
(* and transparency, whether refraction is total internal reflection,      *)
(* whether over_point is shadowed).  A colour is one channel, an integer.  *)
(* stack holds one frame per active color_at call, with the locals of the  *)
(* shade_hit it runs.                                                      *)

\* the greatest `remaining` a primary ray is cast with
MaxRemaining == 3
\* the most lights add_light puts into the world
MaxLights == 2
\* no frame is pushed beyond this depth (never reached: see C4)
MaxStack == MaxRemaining + 2

Rays == {1, 2}

\* Color::black()
Black == 0

\* what a ray can meet
Miss == [hit |-> FALSE, reflective |-> 0, transparency |-> 0,
         tir |-> FALSE, in_shadow |-> FALSE]
Surface(reflective, transparency, tir, in_shadow) ==
    [hit |-> TRUE, reflective |-> reflective, transparency |-> transparency,
     tir |-> tir, in_shadow |-> in_shadow]
Surfaces ==
    {Surface(r, t, tir, sh) : r \in {0, 1}, t \in {0, 1},
                              tir \in BOOLEAN, sh \in BOOLEAN}
\* total internal reflection needs a transparent material; the shadowed
\* case is kept for the opaque matte surface
Comps ==
    {Miss} \cup {c \in Surfaces :
                    /\ c.tir => c.transparency > 0
                    /\ c.in_shadow => (c.reflective = 0 /\ c.transparency = 0)}

\* Ray::new(comp.over_point, comp.reflect): the ray a reflection casts
ReflectRay(ray) == IF ray = 1 THEN 2 ELSE 1
\* Ray::new(comp.under_point, direction): the ray a refraction casts
RefractRay(ray) == ray

\* intersections.get_hit_index() after World::intersect
HitOf(ray) == scene[ray]

\* World::is_shadowed(&comp.over_point): false in a world without lights
IsShadowed(comp) == IF lights = 0 THEN FALSE ELSE comp.in_shadow

\* Light::lighting: ambient alone in shadow, else ambient + diffuse + specular
Lighting(comp, light, in_shadow) == IF in_shadow THEN 1 ELSE 2 + light

\* f64::approx_eq(0.0) on a material coefficient
ApproxEqZero(x) == x = 0

\* HitComputation::schlick: 1.0 at total internal reflection; otherwise the
\* head-on reflectance of equal indices, 0
Schlick(comp) == IF comp.tir THEN 1 ELSE 0

\* the `remaining` a recursive color_at is called with
RecurseSameDepth(remaining) == remaining
Recurse(remaining) == remaining - 1

Frame(ray, remaining) ==
    [ray |-> ray, remaining |-> remaining, pc |-> "color_at", light |-> 1,
     acc |-> Black, surface |-> Black, reflected |-> Black, refracted |-> Black]

Top == stack[Len(stack)]
SetTop(f) == [stack EXCEPT ![Len(stack)] = f]
Call(f, callee) == Append(SetTop(f), callee)

\* World::add_light
AddLight ==
    /\ stack = <<>> /\ result = None
    /\ lights < MaxLights
    /\ lights' = lights + 1
    /\ UNCHANGED <<scene, stack, result, casts, notShade>>

\* World::render: self.color_at(&ray, REMAINING), for any ray and depth
CastPrimary ==
    \E ray \in Rays, remaining \in 0..MaxRemaining :
        /\ stack = <<>> /\ result = None
        /\ stack' = <<Frame(ray, remaining)>>
        /\ casts' = 1
        /\ UNCHANGED <<scene, lights, result, notShade>>

\* color_at: get_hit_index() is None => Color::black()
ColorAtMiss ==
    /\ stack # <<>> /\ Top.pc = "color_at"
    /\ ~HitOf(Top.ray).hit
    /\ stack' = SetTop([Top EXCEPT !.pc = "return", !.acc = Black])
    /\ UNCHANGED <<scene, lights, result, casts, notShade>>

\* color_at: Some(index) => shade_hit(&comp, remaining); the fold starts
ColorAtHit ==
    /\ stack # <<>> /\ Top.pc = "color_at"
    /\ HitOf(Top.ray).hit
    /\ stack' = SetTop([Top EXCEPT !.pc = "light", !.light = 1, !.acc = Black])
    /\ UNCHANGED <<scene, lights, result, casts, notShade>>

\* shade_hit: the fold takes the next light and computes surface
ShadeHitLight ==
    /\ stack # <<>> /\ Top.pc = "light"
    /\ Top.light <= lights
    /\ stack' = SetTop([Top EXCEPT
           !.pc = "reflected_color",
           !.surface = Lighting(HitOf(Top.ray), Top.light,
                                IsShadowed(HitOf(Top.ray)))])
    /\ UNCHANGED <<scene, lights, result, casts, notShade>>

\* shade_hit: the fold is over, acc is the value of shade_hit and color_at
ShadeHitDone ==
    /\ stack # <<>> /\ Top.pc = "light"
    /\ Top.light > lights
    /\ stack' = SetTop([Top EXCEPT !.pc = "return"])
    /\ UNCHANGED <<scene, lights, result, casts, notShade>>

\* the early return of reflected_color and refracted_color:
\* remaining == 0 || coefficient.approx_eq(0.0)
ReturnsBlackIgnoringRemaining(remaining, coefficient) == ApproxEqZero(coefficient)
ReturnsBlack(remaining, coefficient) == remaining = 0 \/ ApproxEqZero(coefficient)

\* reflected_color: remaining == 0 || reflective.approx_eq(0.0) => black
ReflectedColorBlack ==
    /\ stack # <<>> /\ Top.pc = "reflected_color"
    /\ ReturnsBlack(Top.remaining, HitOf(Top.ray).reflective)
    /\ stack' = SetTop([Top EXCEPT !.pc = "refracted_color", !.reflected = Black])
    /\ UNCHANGED <<scene, lights, result, casts, notShade>>

\* reflected_color: self.color_at(&reflect_ray, remaining - 1)
ReflectedColorCast ==
    /\ stack # <<>> /\ Top.pc = "reflected_color"
    /\ ~(ReturnsBlack(Top.remaining, HitOf(Top.ray).reflective))
    /\ Len(stack) < MaxStack
    /\ stack' = Call([Top EXCEPT !.pc = "reflected_wait"],
                     Frame(ReflectRay(Top.ray), Recurse(Top.remaining)))
    /\ casts' = casts + 1
    /\ UNCHANGED <<scene, lights, result, notShade>>

\* refracted_color: remaining == 0 || transparency.approx_eq(0.0) => black
RefractedColorBlack ==
    /\ stack # <<>> /\ Top.pc = "refracted_color"
    /\ ReturnsBlack(Top.remaining, HitOf(Top.ray).transparency)
    /\ stack' = SetTop([Top EXCEPT !.pc = "fold", !.refracted = Black])
    /\ UNCHANGED <<scene, lights, result, casts, notShade>>

\* refracted_color: sin2_t > 1.0 => black
RefractedColorTotalInternal ==
    /\ stack # <<>> /\ Top.pc = "refracted_color"
    /\ ~(ReturnsBlack(Top.remaining, HitOf(Top.ray).transparency))
    /\ HitOf(Top.ray).tir
    /\ stack' = SetTop([Top EXCEPT !.pc = "fold", !.refracted = Black])
    /\ UNCHANGED <<scene, lights, result, casts, notShade>>

\* refracted_color: self.color_at(&refract_ray, remaining - 1)
RefractedColorCast ==
    /\ stack # <<>> /\ Top.pc = "refracted_color"
    /\ ~(ReturnsBlack(Top.remaining, HitOf(Top.ray).transparency))
    /\ ~HitOf(Top.ray).tir
    /\ Len(stack) < MaxStack
    /\ stack' = Call([Top EXCEPT !.pc = "refracted_wait"],
                     Frame(RefractRay(Top.ray), Recurse(Top.remaining)))
    /\ casts' = casts + 1
    /\ UNCHANGED <<scene, lights, result, notShade>>

\* shade_hit: the body of the fold adds this light's term to acc
FoldTermWithoutAcc(comp, f) == f.surface + f.reflected + f.refracted

FoldTerm(comp, f) ==
    IF comp.reflective > 0 /\ comp.transparency > 0
    THEN f.acc + f.surface + f.reflected * Schlick(comp)
               + f.refracted * (1 - Schlick(comp))
    ELSE f.acc + f.surface + f.reflected + f.refracted

ShadeHitFold ==
    /\ stack # <<>> /\ Top.pc = "fold"
    /\ stack' = SetTop([Top EXCEPT !.pc = "light",
                                   !.acc = FoldTerm(HitOf(Top.ray), Top),
                                   !.light = Top.light + 1])
    /\ UNCHANGED <<scene, lights, result, casts, notShade>>

\* a color_at returns into the reflected_color or refracted_color that
\* called it: color * reflective, color * transparency
Resume(caller, color) ==
    IF caller.pc = "reflected_wait"
    THEN [caller EXCEPT !.pc = "refracted_color",
                        !.reflected = color * HitOf(caller.ray).reflective]
    ELSE [caller EXCEPT !.pc = "fold",
                        !.refracted = color * HitOf(caller.ray).transparency]

ReturnToCaller ==
    /\ Len(stack) > 1 /\ Top.pc = "return"
    /\ stack' = [i \in 1..(Len(stack) - 1) |->
                    IF i = Len(stack) - 1 THEN Resume(stack[i], Top.acc)
                    ELSE stack[i]]
    /\ UNCHANGED <<scene, lights, result, casts, notShade>>

\* the outermost color_at returns to render
ReturnToRender ==
    /\ Len(stack) = 1 /\ Top.pc = "return"
    /\ result' = Some(Top.acc)
    /\ UNCHANGED <<scene, lights, stack, casts, notShade>>

InitShade ==
    /\ scene \in [Rays -> Comps]
    /\ lights = 0
    /\ stack = <<>>
    /\ result = None
    /\ casts = 0
    /\ IdleInts
    /\ IdleHit
    /\ IdleObj
    /\ IdleParse
    /\ IdleCanvas
    /\ IdleShadow
    /\ IdleCall

NextShade ==
    \/ AddLight
    \/ CastPrimary
    \/ ColorAtMiss
    \/ ColorAtHit
    \/ ShadeHitLight
    \/ ShadeHitDone
    \/ ReflectedColorBlack
    \/ ReflectedColorCast
    \/ RefractedColorBlack
    \/ RefractedColorTotalInternal
    \/ RefractedColorCast
    \/ ShadeHitFold
    \/ ReturnToCaller
    \/ ReturnToRender

SpecShade == InitShade /\ [][NextShade]_vars

\* a call runs to its end: nothing preempts the single rendering thread
FairSpecShade == SpecShade /\ WF_vars(NextShade)

-----------------------------------------------------------------------------
(* Matrix: math/matrix/mod.rs, matrix3.rs, matrix2.rs.                     *)
(* A matrix of f64 is the exact rational matrix n / d: n holds integer     *)
(* rows, d > 0 is the common denominator, and the pair is in lowest terms. *)

Abs(x) == IF x < 0 THEN -x ELSE x

RECURSIVE Gcd(_, _)
Gcd(a, b) == IF b = 0 THEN Abs(a) ELSE Gcd(b, a % b)

RECURSIVE GcdSeq(_, _)
GcdSeq(s, g) == IF s = <<>> THEN g ELSE GcdSeq(Tail(s), Gcd(Head(s), g))

\* the 4x4 rows, built from the entry e[row, col] at each row and column
Rows(e) ==
    << <<e[1, 1], e[1, 2], e[1, 3], e[1, 4]>>,
       <<e[2, 1], e[2, 2], e[2, 3], e[2, 4]>>,
       <<e[3, 1], e[3, 2], e[3, 3], e[3, 4]>>,
       <<e[4, 1], e[4, 2], e[4, 3], e[4, 4]>> >>

\* n / d in lowest terms with d > 0
Rat(n, d) ==
    LET g == GcdSeq(n[1] \o n[2] \o n[3] \o n[4], Abs(d))
        k == IF d < 0 THEN -g ELSE g
    IN  [n |-> Rows([i \in 1..4, j \in 1..4 |-> n[i][j] \div k]), d |-> d \div k]

\* Matrix::identity
Identity ==
    [n |-> << <<1, 0, 0, 0>>, <<0, 1, 0, 0>>, <<0, 0, 1, 0>>, <<0, 0, 0, 1>> >>,
     d |-> 1]

\* impl Mul for Matrix
MatMul(a, b) ==
    LET n == Rows([i \in 1..4, j \in 1..4 |->
                     a.n[i][1] * b.n[1][j] + a.n[i][2] * b.n[2][j]
                   + a.n[i][3] * b.n[3][j] + a.n[i][4] * b.n[4][j]])
    IN  Rat(n, a.d * b.d)

\* Matrix::transpose
Transpose(a) ==
    [n |-> Rows([col \in 1..4, row \in 1..4 |-> a.n[row][col]]), d |-> a.d]

\* Matrix::sub_matrix, Matrix3::sub_matrix: drop one row and one column
DropAt(s, k) == SubSeq(s, 1, k - 1) \o SubSeq(s, k + 1, Len(s))

SubMatrix(m, row_sub, col_sub) ==
    LET rows == DropAt(m, row_sub)
    IN  IF Len(rows) = 3
        THEN <<DropAt(rows[1], col_sub), DropAt(rows[2], col_sub),
               DropAt(rows[3], col_sub)>>
        ELSE <<DropAt(rows[1], col_sub), DropAt(rows[2], col_sub)>>

\* determinant, minor and cofactor of the integer rows of a 4x4, 3x3 or 2x2
RECURSIVE Determinant(_)
RECURSIVE Cofactor(_, _, _)
RECURSIVE RowSum(_, _)

Minor(m, row, col) == Determinant(SubMatrix(m, row, col))

Cofactor(m, row, col) ==
    IF (row + col) % 2 = 0 THEN Minor(m, row, col) ELSE -Minor(m, row, col)

RowSum(m, index) ==
    IF index = 0 THEN 0
    ELSE RowSum(m, index - 1) + m[1][index] * Cofactor(m, 1, index)

Determinant(m) ==
    IF Len(m) = 2
    THEN (m[1][1] * m[2][2]) - (m[2][1] * m[1][2])
    ELSE RowSum(m, Len(m))

\* epsilon::round(a) in units of 1e-5, for a = p / q with q > 0:
\* (a * 100000.0).round(), which rounds half away from zero
RoundUnits(p, q) ==
    LET u == (2 * 100000 * Abs(p) + q) \div (2 * q)
    IN  IF p < 0 THEN -u ELSE u

\* (0.0).approx_eq(p / q): |round(0) - round(p/q)|, rounded, is below EPSILON
ZeroApproxEq(p, q) == Abs(0 - RoundUnits(p, q)) < 1

\* Matrix::is_invertible: !(0.0).approx_eq(self.determinant())
IsInvertibleAlways(a) == TRUE
IsInvertible(a) == ~ZeroApproxEq(Determinant(a.n), a.d * a.d * a.d * a.d)

\* Matrix::inverse past its panic: m[col][row] = cofactor(row, col) / det
Inverse(a) ==
    LET n == Rows([col \in 1..4, row \in 1..4 |-> a.d * Cofactor(a.n, row, col)])
    IN  Rat(n, Determinant(a.n))

-----------------------------------------------------------------------------
(* Transform constructors: math/transformation.rs *)

Translate(x, y, z) ==
    [n |-> << <<1, 0, 0, x>>, <<0, 1, 0, y>>, <<0, 0, 1, z>>, <<0, 0, 0, 1>> >>,
     d |-> 1]

Scale(x, y, z) ==
    [n |-> << <<x, 0, 0, 0>>, <<0, y, 0, 0>>, <<0, 0, z, 0>>, <<0, 0, 0, 1>> >>,
     d |-> 1]

\* the matrices the fluent calls of a run are made with; the last is singular
Transforms ==
    {Translate(0, 5, 0), Scale(1, 2, 3), Scale(1, 0, 1)}

-----------------------------------------------------------------------------
(* Ray: a point or vector is n / d with w = 1 or 0 *)

Point(x, y, z) == [n |-> <<x, y, z>>, d |-> 1, w |-> 1]
Vector(x, y, z) == [n |-> <<x, y, z>>, d |-> 1, w |-> 0]

\* impl Mul<T: Tuple> for Matrix: the result keeps the kind (w) of rhs
MatMulTuple(a, rhs) ==
    LET E(i) == a.n[i][1] * rhs.n[1] + a.n[i][2] * rhs.n[2]
              + a.n[i][3] * rhs.n[3] + a.n[i][4] * rhs.w * rhs.d
        c == <<E(1), E(2), E(3)>>
        q == a.d * rhs.d
        g == GcdSeq(c, q)
    IN  [n |-> <<c[1] \div g, c[2] \div g, c[3] \div g>>, d |-> q \div g, w |-> rhs.w]

\* Ray::with_transform
RayWithTransform(ray, m) ==
    [origin |-> MatMulTuple(m, ray.origin),
     direction |-> MatMulTuple(m, ray.direction)]

-----------------------------------------------------------------------------
(* Object and Group: render/object.rs, render/shapes/group.rs.             *)
(* A panic inside an operation makes its value Panicked.                   *)

Panicked == [shape |-> "Panicked"]
IsPanic(o) == o.shape = "Panicked"

DefaultMaterial == "default"
Materials == {"glass"}

LeafShapes == {"Sphere"}

\* Object::new_sphere, new_test_shape, ...: identity matrices, default material
NewObject(shape) ==
    [shape |-> shape, children |-> <<>>, points |-> <<>>,
     material |-> DefaultMaterial,
     transformation |-> Identity,
     inv_transformation |-> Identity,
     inv_transpose_transformation |-> Identity]

IsGroup(o) == o.shape = "Group"

\* Object::new_tri, Object::new_smooth_tri: the shape holds the three points,
\* and the three normals of a smooth triangle
NewTri(p1, p2, p3) ==
    [NewObject("Triangle") EXCEPT !.points = <<p1, p2, p3>>]
NewSmoothTri(p1, p2, p3, n1, n2, n3) ==
    [NewObject("SmoothTriangle") EXCEPT !.points = <<p1, p2, p3, n1, n2, n3>>]

\* Object::with_shape(Shape::Group(Group::new(children)))
WithGroupShape(self, children) ==
    [self EXCEPT !.shape = "Group", !.children = children]

\* Materialable::with_material
WithMaterial(self, material) ==
    [shape |-> self.shape, children |-> self.children, points |-> self.points,
     material |-> material,
     transformation |-> self.transformation,
     inv_transformation |-> self.inv_transformation,
     inv_transpose_transformation |-> self.inv_transpose_transformation]

\* with_transform of a shape that is no group: the `_ =>` arm
LeafWithTransformStaleInverse(self, new_transformation) ==
    [self EXCEPT !.transformation = MatMul(new_transformation, self.transformation)]

LeafWithTransformOnRight(self, new_transformation) ==
    LET m == MatMul(self.transformation, new_transformation)
        inverse == Inverse(m)
    IN  IF ~IsInvertible(m) THEN Panicked
        ELSE [self EXCEPT !.transformation = m,
                          !.inv_transformation = inverse,
                          !.inv_transpose_transformation = Transpose(inverse)]

LeafWithTransform(self, new_transformation) ==
    LET m == MatMul(new_transformation, self.transformation)
        inverse == Inverse(m)
    IN  IF ~IsInvertible(m) THEN Panicked
        ELSE [self EXCEPT !.transformation = m,
                          !.inv_transformation = inverse,
                          !.inv_transpose_transformation = Transpose(inverse)]

\* GroupTree::Leaf(object), GroupTree::Node(object, children)
TreeLeaf(o) == [node |-> FALSE, object |-> o, children |-> <<>>]
TreeNode(o, kids) == [node |-> TRUE, object |-> o, children |-> kids]

\* the filter_map of new_group and from_object: a group without children is
\* dropped
KeepsAnyChild(child) == TRUE
KeepsChild(child) == ~(IsGroup(child) /\ child.children = <<>>)

\* GroupTree::from_object
RECURSIVE FromObject(_)
RECURSIVE FromObjects(_)
FromObject(object) ==
    IF IsGroup(object)
    THEN TreeNode(object, FromObjects(SelectSeq(object.children, KeepsChild)))
    ELSE TreeLeaf(object)

FromObjects(children) ==
    IF children = <<>> THEN <<>>
    ELSE <<FromObject(Head(children))>> \o FromObjects(Tail(children))

\* GroupTree::walk: let child_transform = *transform * group.get_transform()
ChildTransformWithoutGroup(transform, group) == transform
ChildTransform(transform, group) == MatMul(transform, group.transformation)

\* GroupTree::walk
RECURSIVE Walk(_, _)
RECURSIVE WalkEach(_, _)
Walk(tree, transform) ==
    IF ~tree.node
    THEN LeafWithTransform(tree.object, transform)
    ELSE LET new_children == WalkEach(tree.children, ChildTransform(transform, tree.object))
         IN  IF \E i \in 1..Len(new_children) : IsPanic(new_children[i])
             THEN Panicked
             ELSE WithGroupShape(NewObject("TestShape"), new_children)

WalkEach(trees, transform) ==
    IF trees = <<>> THEN <<>>
    ELSE <<Walk(Head(trees), transform)>> \o WalkEach(Tail(trees), transform)

\* GroupTree::build
Build(tree) == Walk(tree, Identity)

\* Object::new_group
NewGroup(children) ==
    Build(TreeNode(NewObject("TestShape"),
                   FromObjects(SelectSeq(children, KeepsChild))))

\* Transformable::with_transform for Object
WithTransform(self, new_transformation) ==
    IF IsGroup(self)
    THEN LET root == LeafWithTransform(NewObject("TestShape"), new_transformation)
         IN  IF IsPanic(root) THEN Panicked
             ELSE Build(TreeNode(root, FromObjects(self.children)))
    ELSE LeafWithTransform(self, new_transformation)

\* Object::intersect, Group::intersect: the local ray every leaf shape of the
\* object is intersected with, in the order the leaves are visited
RECURSIVE LocalRays(_, _)
RECURSIVE LocalRaysEach(_, _)
LocalRays(self, ray) ==
    IF IsGroup(self)
    THEN LocalRaysEach(self.children, ray)
    ELSE <<RayWithTransform(ray, self.inv_transformation)>>

LocalRaysEach(children, ray) ==
    IF children = <<>> THEN <<>>
    ELSE LocalRays(Head(children), ray) \o LocalRaysEach(Tail(children), ray)

\* the leaves of an object and the group objects of an object, depth first
RECURSIVE Leaves(_)
RECURSIVE LeavesEach(_)
Leaves(o) == IF IsGroup(o) THEN LeavesEach(o.children) ELSE <<o>>
LeavesEach(children) ==
    IF children = <<>> THEN <<>>
    ELSE Leaves(Head(children)) \o LeavesEach(Tail(children))

RECURSIVE Nodes(_)
RECURSIVE NodesEach(_)
Nodes(o) == <<o>> \o (IF IsGroup(o) THEN NodesEach(o.children) ELSE <<>>)
NodesEach(children) ==
    IF children = <<>> THEN <<>>
    ELSE Nodes(Head(children)) \o NodesEach(Tail(children))

RECURSIVE Flatten(_)
Flatten(ss) == IF ss = <<>> THEN <<>> ELSE Head(ss) \o Flatten(Tail(ss))

WorldRays == {[origin |-> Point(1, 2, -5), direction |-> Vector(0, 1, 1)]}

-----------------------------------------------------------------------------
(* Actions of a program that builds objects with the fluent calls *)

\* Object::new_sphere(), Object::new_test_shape()
Construct(shape) ==
    /\ ~panicked
    /\ obj = None
    /\ budget.leaves > 0
    /\ budget' = [budget EXCEPT !.leaves = @ - 1]
    /\ obj' = Some(NewObject(shape))
    /\ expected' = <<Identity>>
    /\ seen' = None
    /\ UNCHANGED <<kept, keptExpected, panicked>>
    /\ UNCHANGED notObj

\* obj.with_transform(m), and translate, scale, rotate_y, shear through it
Transform(m) ==
    /\ ~panicked
    /\ obj # None
    /\ budget.calls > 0
    /\ budget' = [budget EXCEPT !.calls = @ - 1]
    /\ LET new == WithTransform(obj[1], m)
       IN  IF IsPanic(new)
           THEN /\ panicked' = TRUE
                /\ obj' = None
                /\ expected' = <<>>
           ELSE /\ panicked' = FALSE
                /\ obj' = Some(new)
                /\ expected' = [i \in 1..Len(expected) |-> MatMul(m, expected[i])]
    /\ seen' = None
    /\ UNCHANGED <<kept, keptExpected>>
    /\ UNCHANGED notObj

\* obj.with_material(material)
SetMaterial(material) ==
    /\ ~panicked
    /\ obj # None
    /\ budget.calls > 0
    /\ budget' = [budget EXCEPT !.calls = @ - 1]
    /\ obj' = Some(WithMaterial(obj[1], material))
    /\ seen' = None
    /\ UNCHANGED <<kept, expected, keptExpected, panicked>>
    /\ UNCHANGED notObj

\* the object is moved into the vector of children of the next group
Keep ==
    /\ ~panicked
    /\ obj # None
    /\ budget.calls > 0
    /\ kept' = Append(kept, obj[1])
    /\ keptExpected' = Append(keptExpected, expected)
    /\ obj' = None
    /\ expected' = <<>>
    /\ seen' = None
    /\ UNCHANGED <<budget, panicked>>
    /\ UNCHANGED notObj

\* Object::new_group(kept)
DoNewGroup ==
    /\ ~panicked
    /\ obj = None
    /\ budget.calls > 0
    /\ budget' = [budget EXCEPT !.calls = @ - 1]
    /\ LET new == NewGroup(kept)
       IN  IF IsPanic(new)
           THEN /\ panicked' = TRUE
                /\ obj' = None
                /\ expected' = <<>>
           ELSE /\ panicked' = FALSE
                /\ obj' = Some(new)
                /\ expected' = Flatten(keptExpected)
    /\ kept' = <<>>
    /\ keptExpected' = <<>>
    /\ seen' = None
    /\ UNCHANGED notObj

\* obj.intersect(&ray, &mut intersections)
DoIntersect(ray) ==
    /\ ~panicked
    /\ obj # None
    /\ seen = None
    /\ seen' = Some([ray |-> ray, local |-> LocalRays(obj[1], ray)])
    /\ UNCHANGED <<obj, kept, expected, keptExpected, budget, panicked>>
    /\ UNCHANGED notObj

InitObj ==
    /\ obj = None /\ kept = <<>> /\ expected = <<>> /\ keptExpected = <<>>
    /\ budget = [leaves |-> MaxLeaves, calls |-> MaxCalls]
    /\ panicked = FALSE
    /\ seen = None
    /\ IdleInts /\ IdleHit /\ IdleShade /\ IdleParse /\ IdleCanvas
    /\ IdleShadow
    /\ IdleCall

NextObj ==
    \/ \E shape \in LeafShapes : Construct(shape)
    \/ \E m \in Transforms : Transform(m)
    \/ \E material \in Materials : SetMaterial(material)
    \/ Keep
    \/ DoNewGroup
    \/ \E ray \in WorldRays : DoIntersect(ray)

SpecObj == InitObj /\ [][NextObj]_vars

-----------------------------------------------------------------------------
(* OBJ importer: draw/io/obj.rs.                                           *)
(* A line of text is the sequence of its characters.                       *)

\* str::split: the fields around every separator, empty fields included
RECURSIVE Split(_, _)
Split(s, sep) ==
    IF \A i \in 1..Len(s) : s[i] # sep
    THEN <<s>>
    ELSE LET k == CHOOSE i \in 1..Len(s) :
                     s[i] = sep /\ \A j \in 1..(i - 1) : s[j] # sep
         IN  <<SubSeq(s, 1, k - 1)>> \o Split(SubSeq(s, k + 1, Len(s)), sep)

\* Iterator::skip
Skip(s, n) == SubSeq(s, n + 1, Len(s))

Digits == <<"0", "1", "2", "3", "4", "5", "6", "7", "8", "9">>
IsDigit(c) == \E d \in 1..10 : Digits[d] = c
DigitValue(c) == (CHOOSE d \in 1..10 : Digits[d] = c) - 1

\* the value of a string of decimal digits
RECURSIVE Decimal(_, _)
Decimal(s, acc) ==
    IF s = <<>> THEN acc ELSE Decimal(Tail(s), 10 * acc + DigitValue(Head(s)))

AllDigits(s) == s # <<>> /\ \A i \in 1..Len(s) : IsDigit(s[i])

\* str::parse::<usize>: an optional + and decimal digits
ParseUsize(s) ==
    LET body == IF s # <<>> /\ Head(s) = "+" THEN Tail(s) ELSE s
    IN  IF AllDigits(body) THEN Some(Decimal(body, 0)) ELSE None

\* str::parse::<f64>, on the literals the texts below hold: an optional sign
\* and decimal digits
ParseF64(s) ==
    LET signed == s # <<>> /\ Head(s) \in {"+", "-"}
        body == IF signed THEN Tail(s) ELSE s
    IN  IF ~AllDigits(body) THEN None
        ELSE IF signed /\ Head(s) = "-" THEN Some(0 - Decimal(body, 0))
        ELSE Some(Decimal(body, 0))

\* ObjFileParser::new_input
NewInput(input) ==
    [input |-> input, lines_ignored |-> 0, vertices |-> <<>>,
     normals |-> <<>>, faces |-> <<>>, current_group |-> None]

\* ObjFileParser::parse_vertex_line
ParseVertexLine(line) ==
    LET p_str == Skip(Split(line, " "), 1)
    IN  IF Len(p_str) < 3 THEN None
        ELSE Some(Point(UnwrapOr(ParseF64(p_str[1]), 0),
                        UnwrapOr(ParseF64(p_str[2]), 0),
                        UnwrapOr(ParseF64(p_str[3]), 0)))

\* ObjFileParser::parse_normal_line
ParseNormalLine(line) ==
    LET p_str == Skip(Split(line, " "), 1)
    IN  IF Len(p_str) < 3 THEN None
        ELSE Some(Vector(UnwrapOr(ParseF64(p_str[1]), 0),
                         UnwrapOr(ParseF64(p_str[2]), 0),
                         UnwrapOr(ParseF64(p_str[3]), 0)))

\* ObjFileParser::parse_face_entry indexes items[2]: with two items the
\* index is out of bounds and the program panics
FaceEntryPanics(entry) == Len(Split(entry, "/")) = 2

\* ObjFileParser::parse_face_entry past that panic
ParseFaceEntry(entry) ==
    LET items == Split(entry, "/")
    IN  IF Len(items) = 1
        THEN [vertex |-> UnwrapOr(ParseUsize(entry), 0), normal |-> None]
        ELSE [vertex |-> UnwrapOr(ParseUsize(items[1]), 0),
              normal |-> ParseUsize(items[3])]

\* ObjFileParser::parse_face_line
FaceLinePanics(line) ==
    LET t_str == Skip(Split(line, " "), 1)
    IN  Len(t_str) >= 3 /\ \E i \in 1..Len(t_str) : FaceEntryPanics(t_str[i])

ParseFaceLine(self, line) ==
    LET t_str == Skip(Split(line, " "), 1)
    IN  IF Len(t_str) < 3 THEN None
        ELSE Some([vertices |-> [i \in 1..Len(t_str) |-> ParseFaceEntry(t_str[i])],
                   group |-> self.current_group])

\* the body of the loop of ObjFileParser::parse, for a line that does not panic
ParseOne(self, line) ==
    LET cols == Split(line, " ")
        lead == cols[1]
        ignored == [self EXCEPT !.lines_ignored = @ + 1]
    IN  IF lead = <<"v">>
        THEN LET v == ParseVertexLine(line)
             IN  IF v = None THEN ignored
                 ELSE [self EXCEPT !.vertices = Append(@, v[1])]
        ELSE IF lead = <<"v", "n">>
        THEN LET v == ParseNormalLine(line)
             IN  IF v = None THEN ignored
                 ELSE [self EXCEPT !.normals = Append(@, v[1])]
        ELSE IF lead = <<"f">>
        THEN LET f == ParseFaceLine(self, line)
             IN  IF f = None THEN ignored
                 ELSE [self EXCEPT !.faces = Append(@, f[1])]
        ELSE IF lead = <<"g">>
        THEN LET name == IF Len(cols) > 1 THEN cols[2] ELSE <<>>
             IN  [self EXCEPT !.current_group = Some(name)]
        ELSE ignored

Min(a, b) == IF a < b THEN a ELSE b

\* the Vec index of get_vertex and get_normal, counted from 1:
\* (index - 1).max(0).min(len - 1) in usize.  With overflow checks 0 - 1
\* panics; without them it wraps to usize::MAX, so index 0 is clamped to the
\* last element, and an empty Vec is indexed out of bounds.  None is a panic.
ClampedIndex(index, len, overflow_checks) ==
    IF overflow_checks /\ (index = 0 \/ len = 0) THEN None
    ELSE IF len = 0 THEN None
    ELSE IF index = 0 THEN Some(len)
    ELSE Some(Min(index - 1, len - 1) + 1)

\* ObjFileParser::get_vertex, get_normal
GetVertex(self, index, overflow_checks) ==
    LET i == ClampedIndex(index, Len(self.vertices), overflow_checks)
    IN  IF i = None THEN None ELSE Some(self.vertices[i[1]])

GetNormal(self, index, overflow_checks) ==
    LET i == ClampedIndex(index, Len(self.normals), overflow_checks)
    IN  IF i = None THEN None ELSE Some(self.normals[i[1]])

\* one triangle of the fan: its three corners
IsSmooth(v1, v2, v3) == v1.normal # None /\ v2.normal # None /\ v3.normal # None

TrianglePanics(self, v1, v2, v3, oc) ==
    \/ \E v \in {v1, v2, v3} : GetVertex(self, v.vertex, oc) = None
    \/ /\ IsSmooth(v1, v2, v3)
       /\ \E v \in {v1, v2, v3} : GetNormal(self, v.normal[1], oc) = None

Triangle(self, v1, v2, v3, oc) ==
    IF IsSmooth(v1, v2, v3)
    THEN WithMaterial(NewSmoothTri(GetVertex(self, v1.vertex, oc)[1],
                                   GetVertex(self, v2.vertex, oc)[1],
                                   GetVertex(self, v3.vertex, oc)[1],
                                   GetNormal(self, v1.normal[1], oc)[1],
                                   GetNormal(self, v2.normal[1], oc)[1],
                                   GetNormal(self, v3.normal[1], oc)[1]),
                      DefaultMaterial)
    ELSE WithMaterial(NewTri(GetVertex(self, v1.vertex, oc)[1],
                             GetVertex(self, v2.vertex, oc)[1],
                             GetVertex(self, v3.vertex, oc)[1]),
                      DefaultMaterial)

\* ObjFileParser::fan_triangulation: for index in 1..(vertices.len() - 1)
FanPanics(self, vertices, oc) ==
    \E index \in 2..(Len(vertices) - 1) :
        TrianglePanics(self, vertices[1], vertices[index], vertices[index + 1], oc)

StripTriangulation(self, vertices, oc) ==
    [k \in 1..(Len(vertices) - 2) |->
        Triangle(self, vertices[k], vertices[k + 1], vertices[k + 2], oc)]

FanTriangulation(self, vertices, oc) ==
    [k \in 1..(Len(vertices) - 2) |->
        Triangle(self, vertices[1], vertices[k + 1], vertices[k + 2], oc)]

\* HashMap::insert: the value of an existing key is replaced
HashInsert(hash, k, v) ==
    [x \in (DOMAIN hash) \cup {k} |-> IF x = k THEN v ELSE hash[x]]

EmptyHash == [x \in {} |-> <<>>]

\* the loop over self.faces of ObjFileParser::build
RECURSIVE CollectFaces(_, _, _, _)
CollectFaces(self, faces, oc, acc) ==
    IF faces = <<>> THEN acc
    ELSE LET face == Head(faces)
             tris == FanTriangulation(self, face.vertices, oc)
         IN  CollectFaces(self, Tail(faces), oc,
                 IF face.group # None
                 THEN [acc EXCEPT !.group_hash = HashInsert(@, face.group[1], tris)]
                 ELSE [acc EXCEPT !.root_children = @ \o tris])

\* the orders group_hash.keys() may yield the keys in
KeyOrders(hash) ==
    {order \in [1..Cardinality(DOMAIN hash) -> DOMAIN hash] :
        \A i, j \in DOMAIN order : i # j => order[i] # order[j]}

\* the end of ObjFileParser::build: `if groups.len() == 1`
BuildResultInOneRoot(groups, root_children) == NewGroup(groups \o root_children)

BuildResult(groups, root_children) ==
    IF Len(groups) = 1
    THEN groups[1]
    ELSE NewGroup(groups \o root_children)

Collected(self, oc) ==
    CollectFaces(self, self.faces, oc,
                 [root_children |-> <<>>, group_hash |-> EmptyHash])

\* ObjFileParser::build after parse, the keys coming in the given order
ParserBuild(self, order, oc) ==
    LET acc == Collected(self, oc)
        groups == [i \in DOMAIN order |-> NewGroup(acc.group_hash[order[i]])]
    IN  BuildResult(groups, acc.root_children)

BuildPanics(self, oc) ==
    \E i \in 1..Len(self.faces) : FanPanics(self, self.faces[i].vertices, oc)

-----------------------------------------------------------------------------
(* The texts the importer is run on *)

Square ==
    << <<"v", " ", "0", " ", "0", " ", "0">>,
       <<"v", " ", "1", " ", "0", " ", "0">>,
       <<"v", " ", "1", " ", "1", " ", "0">>,
       <<"v", " ", "0", " ", "1", " ", "0">> >>

NormalLine == <<"v", "n", " ", "0", " ", "0", " ", "1">>

\* the blocks of vertex lines a text opens with
FaceHeaders == {Square}
AnyHeaders == {<<>>, Square \o <<NormalLine>>}

GroupX == <<"g", " ", "X">>
GroupY == <<"g", " ", "Y">>
FaceTriangle == <<"f", " ", "1", " ", "2", " ", "3">>
FaceQuad == <<"f", " ", "2", " ", "3", " ", "4", " ", "1">>
FacePentagon == <<"f", " ", "1", " ", "2", " ", "3", " ", "4", " ", "2">>
FaceSmooth ==
    <<"f", " ", "1", "/", "/", "1", " ", "2", "/", "/", "1", " ", "3", "/", "/", "1">>
FaceFull ==
    <<"f", " ", "1", "/", "2", "/", "1", " ", "2", "/", "3", "/", "1", " ",
      "3", "/", "4", "/", "1">>

\* well-formed face and group lines
FaceLines == {GroupX, GroupY, FaceTriangle, FaceQuad, FacePentagon}

\* malformed lines: a v and a vn line with a missing field, a v and a vn line
\* with a non-numeric field, an f line with two entries, and f lines with a
\* non-numeric, a zero, an out-of-range and a vertex/texture index
VertexShort == <<"v", " ", "1", " ", "2">>
NormalShort == <<"v", "n", " ", "1">>
VertexNaN == <<"v", " ", "a", " ", "0", " ", "0">>
NormalNaN == <<"v", "n", " ", "0", " ", "b", " ", "0">>
FaceShort == <<"f", " ", "1", " ", "2">>
FaceNaN == <<"f", " ", "a", " ", "1", " ", "2">>
FaceZero == <<"f", " ", "0", " ", "1", " ", "2">>
FaceOutOfRange == <<"f", " ", "1", " ", "2", " ", "9">>
FaceTexture == <<"f", " ", "1", "/", "2", " ", "2", "/", "3", " ", "3", "/", "4">>

Malformed ==
    {VertexShort, NormalShort, VertexNaN, NormalNaN, FaceShort, FaceNaN,
     FaceZero, FaceOutOfRange, FaceTexture}

Comment == <<"#">>

AnyLines == Malformed \cup {Comment, GroupX, FaceTriangle, FaceSmooth, FaceFull}

-----------------------------------------------------------------------------
(* Actions of the importer *)

\* the line the loop of parse reads next
NextLines(catalogue) ==
    IF parser.input # <<>> THEN {Head(parser.input)}
    ELSE IF fed.more > 0 THEN catalogue
    ELSE {}

\* one iteration of the loop of ObjFileParser::parse
ParseLine(line) ==
    /\ ~panicked
    /\ obj = None
    /\ LET self == [parser EXCEPT !.input = IF @ = <<>> THEN @ ELSE Tail(@)]
           cols == Split(line, " ")
       IN  IF cols[1] = <<"f">> /\ FaceLinePanics(line)
           THEN panicked' = TRUE /\ parser' = self
           ELSE panicked' = FALSE /\ parser' = ParseOne(self, line)
    /\ fed' = [read |-> fed.read + 1,
               malformed |-> fed.malformed + (IF line \in Malformed THEN 1 ELSE 0),
               more |-> IF parser.input # <<>> THEN fed.more ELSE fed.more - 1,
               last |-> line]
    /\ UNCHANGED obj
    /\ UNCHANGED notParse

\* the rest of ObjFileParser::build, once parse has read the last line
DoBuild(overflow_checks) ==
    /\ ~panicked
    /\ obj = None
    /\ parser.input = <<>>
    /\ IF BuildPanics(parser, overflow_checks)
       THEN panicked' = TRUE /\ obj' = None
       ELSE /\ panicked' = FALSE
            /\ \E order \in KeyOrders(Collected(parser, overflow_checks).group_hash) :
                  obj' = Some(ParserBuild(parser, order, overflow_checks))
    /\ UNCHANGED parseVars
    /\ UNCHANGED notParse

InitParser(headers, more) ==
    /\ \E header \in headers : parser = NewInput(header)
    /\ fed = [read |-> 0, malformed |-> 0, more |-> more, last |-> <<>>]
    /\ IdleInts /\ IdleHit /\ IdleShade /\ IdleObj /\ IdleCanvas
    /\ IdleShadow
    /\ IdleCall

\* any text
InitParse == InitParser(AnyHeaders, MaxLines)

NextParse ==
    \/ \E line \in NextLines(AnyLines) : ParseLine(line)
    \/ \E overflow_checks \in BOOLEAN : DoBuild(overflow_checks)

SpecParse == InitParse /\ [][NextParse]_vars

\* well-formed texts of faces in groups
InitFaces == InitParser(FaceHeaders, MaxFaceLines)

NextFaces ==
    \/ \E line \in NextLines(FaceLines) : ParseLine(line)
    \/ \E overflow_checks \in BOOLEAN : DoBuild(overflow_checks)

SpecFaces == InitFaces /\ [][NextFaces]_vars

-----------------------------------------------------------------------------
(* Canvas and its PPM text: draw/canvas.rs, draw/color.rs.                 *)
(* A colour component is an f64 held in tenths (0.5 -> 5).                  *)

\* Color::scale of one component: ((c * 255.0) as u8).max(0).min(255); the
\* cast truncates and saturates
ScaleComponent(c) ==
    IF c < 0 THEN 0
    ELSE IF (c * 255) \div 10 > 255 THEN 255
    ELSE (c * 255) \div 10

\* Color::scale
ColorScale(color) ==
    <<ScaleComponent(color[1]), ScaleComponent(color[2]), ScaleComponent(color[3])>>

\* the colours of the tests: (1.5, 0, 0), (0, 0.5, 0), (-0.5, 0, 1)
Colors == {<<15, 0, 0>>, <<0, 5, 0>>, <<-5, 0, 10>>}

\* Canvas::new
CanvasNew(width, height) ==
    [width |-> width, height |-> height,
     data |-> [i \in 1..(width * height * 3) |-> 0]]

\* Canvas::to_index; data is indexed from 0 in the code, from 1 here
ToIndex(self, pos) == ((pos[2] * self.width) + pos[1]) * 3

\* Canvas::set_pixel
SetPixel(self, pos, color) ==
    LET rgb == ColorScale(color)
        index == ToIndex(self, pos)
    IN  IF index + 2 < Len(self.data)
        THEN [self EXCEPT !.data = [i \in 1..Len(self.data) |->
                 IF i = index + 1 THEN rgb[1]
                 ELSE IF i = index + 2 THEN rgb[2]
                 ELSE IF i = index + 3 THEN rgb[3]
                 ELSE self.data[i]]]
        ELSE self

\* Canvas::pixel_at: the three bytes of the pixel (each is divided by 255.0)
PixelAt(self, pos) ==
    LET index == ToIndex(self, pos)
    IN  IF index + 2 < Len(self.data)
        THEN Some(<<self.data[index + 1], self.data[index + 2], self.data[index + 3]>>)
        ELSE None

\* self.data.get(index).unwrap_or(&0)
DataGet(self, index) ==
    IF index < Len(self.data) THEN self.data[index + 1] ELSE 0

\* the Display of an unsigned integer: its decimal digits
RECURSIVE FormatUnsigned(_)
FormatUnsigned(n) ==
    IF n < 10 THEN <<Digits[n + 1]>>
    ELSE FormatUnsigned(n \div 10) \o <<Digits[(n % 10) + 1]>>

\* the condition of the line break of Canvas::fmt
BreakAfter(x) == x > 1 /\ x % 4 = 0

\* the body of the inner loop of Canvas::fmt
FmtPixel(self, x, y) ==
    LET index == ToIndex(self, <<x, y>>)
    IN  FormatUnsigned(DataGet(self, index)) \o <<" ">>
        \o FormatUnsigned(DataGet(self, index + 1)) \o <<" ">>
        \o FormatUnsigned(DataGet(self, index + 2)) \o <<" ">>
        \o (IF BreakAfter(x) THEN <<"\n">> ELSE <<>>)

\* the loops of Canvas::fmt, from pixel (x, y) on
RECURSIVE FmtFrom(_, _, _)
FmtFrom(self, x, y) ==
    IF y >= self.height THEN <<>>
    ELSE IF x >= self.width THEN FmtFrom(self, 0, y + 1)
    ELSE FmtPixel(self, x, y) \o FmtFrom(self, x + 1, y)

\* Display for Canvas
Fmt(self) ==
    <<"P", "3", "\n">>
    \o FormatUnsigned(self.width) \o <<" ">> \o FormatUnsigned(self.height) \o <<"\n">>
    \o <<"2", "5", "5", "\n">>
    \o FmtFrom(self, 0, 0)

-----------------------------------------------------------------------------
(* Actions on a Canvas *)

DoCanvasNew(width, height) ==
    /\ canvas = None
    /\ canvas' = Some(CanvasNew(width, height))
    /\ UNCHANGED <<ppm, sets>>
    /\ UNCHANGED notCanvas

\* positions up to one column and one row beyond the canvas
DoSetPixel(pos, color) ==
    /\ canvas # None
    /\ ppm = None
    /\ sets > 0
    /\ pos[1] \in 0..canvas[1].width
    /\ pos[2] \in 0..canvas[1].height
    /\ canvas' = Some(SetPixel(canvas[1], pos, color))
    /\ sets' = sets - 1
    /\ call' = [fn |-> "set_pixel", pos |-> pos, color |-> color]
    /\ UNCHANGED ppm
    /\ UNCHANGED notCanvasCall

\* canvas.pixel_at(pos), at the same positions
DoPixelAt(pos) ==
    /\ canvas # None
    /\ ppm = None
    /\ sets > 0
    /\ pos[1] \in 0..canvas[1].width
    /\ pos[2] \in 0..canvas[1].height
    /\ sets' = sets - 1
    /\ call' = [fn |-> "pixel_at", pos |-> pos, value |-> PixelAt(canvas[1], pos)]
    /\ UNCHANGED <<canvas, ppm>>
    /\ UNCHANGED notCanvasCall

\* canvas.to_string()
DoFmt ==
    /\ canvas # None
    /\ ppm = None
    /\ ppm' = Some(Fmt(canvas[1]))
    /\ UNCHANGED <<canvas, sets>>
    /\ UNCHANGED notCanvas

InitCanvas ==
    /\ canvas = None /\ ppm = None /\ sets = MaxSets
    /\ IdleInts /\ IdleHit /\ IdleShade /\ IdleObj /\ IdleParse
    /\ IdleShadow
    /\ IdleCall

NextCanvas ==
    \/ \E width \in 0..MaxWidth, height \in 0..MaxHeight : DoCanvasNew(width, height)
    \/ \E x \in 0..MaxWidth, y \in 0..MaxHeight, color \in Colors :
           DoSetPixel(<<x, y>>, color)
    \/ \E x \in 0..MaxWidth, y \in 0..MaxHeight : DoPixelAt(<<x, y>>)
    \/ DoFmt

SpecCanvas == InitCanvas /\ [][NextCanvas]_vars

-----------------------------------------------------------------------------
(* World::is_shadowed: render/world.rs, render/shapes/plane.rs.            *)
(*                                                                         *)
(* The world lies on the y axis: a light is the y of its position, an      *)
(* object is a Plane translated to y = wall, a point is its y.  A unit     *)
(* direction on the axis is 1 or -1, and NaN when a zero vector was        *)
(* normalised.                                                             *)

LightYs == {-2, 0, 2}
WallYs == {-1, 1, 2, 3}
PointYs == {0, 1}

\* World::new
WorldNew == [lights |-> <<>>, objects |-> <<>>]

\* Tuple::magnitude and Vector::normalize of the vector (0, v, 0)
Magnitude(v) == Abs(v)
Normalize(v) == IF v = 0 THEN NaN ELSE IF v > 0 THEN F(1) ELSE F(-1)

\* Ray::new(origin, direction)
RayNew(origin, direction) == [origin |-> origin, direction |-> direction]

\* Plane::intersect in the plane's space, the ray's origin moved by -wall:
\* direction.y.abs() >= EPSILON is false for NaN;
\* t = -origin.y / direction.y, the division by 1 or -1 being the product
PlaneIntersect(ray, wall, acc) ==
    IF ~ray.direction.nan /\ Abs(ray.direction.v) >= 1
    THEN Push(acc, Intersection(F((-(ray.origin - wall)) * ray.direction.v), wall))
    ELSE acc

\* World::intersect: for obj in objects { obj.intersect(ray, intersections) }
RECURSIVE PlanesIntersect(_, _, _)
PlanesIntersect(ray, objects, acc) ==
    IF objects = <<>> THEN acc
    ELSE PlanesIntersect(ray, Tail(objects), PlaneIntersect(ray, Head(objects), acc))

\* the body of is_shadowed for the light at index k
ShadowedToward(w, point, k) ==
    LET vector == w.lights[k] - point
        distance == Magnitude(vector)
        direction == Normalize(vector)
        ray == RayNew(point, direction)
        intersections == PlanesIntersect(ray, w.objects, IntersectionsNew)
        hit == GetHit(intersections)
    IN  IF hit # None THEN hit[1].t.v < distance ELSE FALSE

\* World::is_shadowed
WorldIsShadowedLastLight(w, point) ==
    IF Len(w.lights) = 0 THEN FALSE ELSE ShadowedToward(w, point, Len(w.lights))

WorldIsShadowed(w, point) ==
    IF Len(w.lights) = 0 THEN FALSE ELSE ShadowedToward(w, point, 1)

TheWorld == [lights |-> shadow.lights, objects |-> shadow.objects]

\* World::add_light
ShadowAddLight(y) ==
    /\ Len(shadow.lights) < MaxLights
    /\ shadow' = [shadow EXCEPT !.lights = Append(@, y), !.answer = None]
    /\ UNCHANGED notShadow

\* World::add_object
ShadowAddObject(wall) ==
    /\ Len(shadow.objects) < MaxXs
    /\ shadow' = [shadow EXCEPT !.objects = Append(@, wall), !.answer = None]
    /\ UNCHANGED notShadow

\* world.is_shadowed(&point)
DoIsShadowed(point) ==
    /\ shadow' = [shadow EXCEPT !.point = point,
                                !.answer = Some(WorldIsShadowed(TheWorld, point))]
    /\ UNCHANGED notShadow

InitShadow ==
    /\ shadow = [lights |-> WorldNew.lights, objects |-> WorldNew.objects,
                 point |-> 0, answer |-> None]
    /\ IdleInts /\ IdleHit /\ IdleShade /\ IdleObj /\ IdleParse /\ IdleCanvas
    /\ IdleCall

NextShadow ==
    \/ \E y \in LightYs : ShadowAddLight(y)
    \/ \E wall \in WallYs : ShadowAddObject(wall)
    \/ \E point \in PointYs : DoIsShadowed(point)

SpecShadow == InitShadow /\ [][NextShadow]_vars

-----------------------------------------------------------------------------
(* HitComputation::new, the normal and inside: render/intersections.rs.    *)
(* Vectors have integer coordinates; only the sign of a dot product counts. *)

Coordinates == (0 - MaxCoordinate)..MaxCoordinate
Vectors == {Vector(x, y, z) : x \in Coordinates, y \in Coordinates, z \in Coordinates}

\* impl Mul<Vector> for Vector (the dot product), impl Neg for Vector
Dot(a, b) == a.n[1] * b.n[1] + a.n[2] * b.n[2] + a.n[3] * b.n[3]
Neg(a) == [a EXCEPT !.n = <<0 - a.n[1], 0 - a.n[2], 0 - a.n[3]>>]

\* let (normal, inside) = { ... if normal_dot_eye < 0.0 ... }
FacingKeepsNormal(normal, eye) == [normal |-> normal, inside |-> FALSE]

Facing(normal, eye) ==
    LET normal_dot_eye == Dot(normal, eye)
    IN  IF normal_dot_eye < 0
        THEN [normal |-> Neg(normal), inside |-> TRUE]
        ELSE [normal |-> normal, inside |-> FALSE]

\* HitComputation::new for a hit where intersection.object.normal_at(&point)
\* is normal_at and the ray has the given direction
HCNormal(normal_at, direction) ==
    /\ call.fn = "none"
    /\ LET eye == Neg(direction)
           facing == Facing(normal_at, eye)
       IN  call' = [fn |-> "HitComputation::new", normal_at |-> normal_at,
                    eye |-> eye, normal |-> facing.normal,
                    inside |-> facing.inside, cos_i |-> Dot(eye, facing.normal)]
    /\ UNCHANGED notCall

\* the value of the call goes out of scope
Drop ==
    /\ call.fn # "none"
    /\ call' = [fn |-> "none"]
    /\ UNCHANGED notCall

InitFacing ==
    /\ call = [fn |-> "none"]
    /\ IdleInts /\ IdleHit /\ IdleShade /\ IdleObj /\ IdleParse /\ IdleCanvas
    /\ IdleShadow

NextFacing ==
    \/ \E normal_at \in Vectors, direction \in Vectors : HCNormal(normal_at, direction)
    \/ Drop

SpecFacing == InitFacing /\ [][NextFacing]_vars

-----------------------------------------------------------------------------
(* PointLight::lighting: render/lights/point_light.rs.                     *)
(* The point is the origin and the light is on an axis, so that the        *)
(* normalised light vector is exact; a colour is one channel, in tenths.   *)

\* the unit vectors along the axes
Axes == {v \in Vectors : Abs(v.n[1]) + Abs(v.n[2]) + Abs(v.n[3]) = 1}

\* materials: ambient, diffuse and specular in tenths, and the shininess;
\* Material::default and a mirror-like one
LightMaterials ==
    {[ambient |-> 1, diffuse |-> 9, specular |-> 9, shininess |-> 200],
     [ambient |-> 3, diffuse |-> 0, specular |-> 10, shininess |-> 10]}

\* Vector::normalize of a vector along an axis
NormalizeOnAxis(v) ==
    Vector(IF v.n[1] > 0 THEN 1 ELSE IF v.n[1] < 0 THEN -1 ELSE 0,
           IF v.n[2] > 0 THEN 1 ELSE IF v.n[2] < 0 THEN -1 ELSE 0,
           IF v.n[3] > 0 THEN 1 ELSE IF v.n[3] < 0 THEN -1 ELSE 0)

\* Vector::reflect: self - (normal * 2.0) * (self * normal)
Reflect(v, normal) ==
    Vector(v.n[1] - 2 * normal.n[1] * Dot(v, normal),
           v.n[2] - 2 * normal.n[2] * Dot(v, normal),
           v.n[3] - 2 * normal.n[3] * Dot(v, normal))

\* f64::powf of 0.0 or 1.0 to a positive power
Powf(x, shininess) == IF x = 0 THEN 0 ELSE 1

\* PointLight::lighting, for effective_color = intensity = 1.0
PointLighting(position, material, eye_vector, normal_vector, in_shadow) ==
    LET light_vector == NormalizeOnAxis(position)
        ambient == material.ambient
        light_dot_normal == Dot(light_vector, normal_vector)
        reflect_vector == Neg(Reflect(light_vector, normal_vector))
        reflect_dot_eye == Dot(reflect_vector, eye_vector)
        lit == ~(light_dot_normal < 0) /\ ~in_shadow
        diffuse == IF lit THEN material.diffuse * light_dot_normal ELSE 0
        specular == IF lit /\ ~(reflect_dot_eye < 0)
                    THEN material.specular * Powf(reflect_dot_eye, material.shininess)
                    ELSE 0
    IN  [ambient |-> ambient, diffuse |-> diffuse, specular |-> specular,
         color |-> ambient + diffuse + specular]

\* light.lighting(object, &material, point, eye_vector, normal_vector, in_shadow)
DoLighting(position, material, eye_vector, normal_vector, in_shadow) ==
    /\ call.fn = "none"
    /\ call' = [fn |-> "lighting",
                position |-> position, material |-> material,
                eye_vector |-> eye_vector, normal_vector |-> normal_vector,
                light_dot_normal |-> Dot(NormalizeOnAxis(position), normal_vector),
                in_shadow |-> in_shadow,
                value |-> PointLighting(position, material, eye_vector,
                                        normal_vector, in_shadow)]
    /\ UNCHANGED notCall

InitLighting ==
    /\ call = [fn |-> "none"]
    /\ IdleInts /\ IdleHit /\ IdleShade /\ IdleObj /\ IdleParse /\ IdleCanvas
    /\ IdleShadow

NextLighting ==
    \/ \E axis \in Axes, material \in LightMaterials, eye_vector \in Axes,
          normal_vector \in Axes, in_shadow \in BOOLEAN :
           DoLighting(axis, material, eye_vector, normal_vector, in_shadow)
    \/ Drop

SpecLighting == InitLighting /\ [][NextLighting]_vars

-----------------------------------------------------------------------------
(* StripePattern: render/patterns.rs.  A coordinate is held in tenths.      *)

StripeXs == (0 - 10 * MaxStripeX)..(10 * MaxStripeX)
StripeYZs == {-13, 0, 5}

\* f64::floor of n / 10
Floor(n) == n \div 10

\* StripePattern::pattern_at: (point.x().floor().abs() as usize) % 2 == 0
StripeAtFloorOfAbs(pattern, point) ==
    IF Floor(Abs(point.x)) % 2 = 0 THEN pattern.a ELSE pattern.b

StripeAt(pattern, point) ==
    IF Abs(Floor(point.x)) % 2 = 0 THEN pattern.a ELSE pattern.b

\* the pattern of stripe_pattern_alternates_in_x
WhiteBlack == [a |-> "white", b |-> "black"]

\* pat.pattern_at(&point)
DoPatternAt(x, y, z) ==
    /\ call.fn = "none"
    /\ call' = [fn |-> "pattern_at", x |-> x, y |-> y, z |-> z,
                value |-> StripeAt(WhiteBlack, [x |-> x, y |-> y, z |-> z])]
    /\ UNCHANGED notCall

InitStripe ==
    /\ call = [fn |-> "none"]
    /\ IdleInts /\ IdleHit /\ IdleShade /\ IdleObj /\ IdleParse /\ IdleCanvas
    /\ IdleShadow

NextStripe ==
    \/ \E x \in StripeXs, y \in StripeYZs, z \in StripeYZs : DoPatternAt(x, y, z)
    \/ Drop

SpecStripe == InitStripe /\ [][NextStripe]_vars

-----------------------------------------------------------------------------
(* Transformable::scale on an Object: math/transformation.rs,              *)
(* render/object.rs.  A factor is a numerator over the call's denominator. *)

Factors == (0 - MaxFactor)..MaxFactor
Denominators == {1, 100}

\* scale(x / d, y / d, z / d)
ScaleBy(x, y, z, d) ==
    Rat(<< <<x, 0, 0, 0>>, <<0, y, 0, 0>>, <<0, 0, z, 0>>, <<0, 0, 0, d>> >>, d)

\* the objects scale is called on: a new sphere, and one translated before
Subjects ==
    {NewObject("Sphere"), LeafWithTransform(NewObject("Sphere"), Translate(0, 5, 0))}

\* self.scale(x / d, y / d, z / d): with_transform(scale(...)); determinant is
\* the numerator and the denominator of the determinant of the product
DoScale(self, x, y, z, d) ==
    /\ call.fn = "none"
    /\ LET product == MatMul(ScaleBy(x, y, z, d), self.transformation)
       IN  call' = [fn |-> "scale", self |-> self, factors |-> <<x, y, z>>,
                    denominator |-> d,
                    determinant |-> <<Determinant(product.n),
                                      product.d * product.d * product.d * product.d>>,
                    value |-> WithTransform(self, ScaleBy(x, y, z, d))]
    /\ UNCHANGED notCall

InitScale ==
    /\ IdleInts /\ IdleHit /\ IdleShade /\ IdleObj /\ IdleParse /\ IdleCanvas
    /\ IdleShadow
    /\ IdleCall

NextScale ==
    \/ \E self \in Subjects, x \in Factors, y \in Factors, z \in Factors,
          d \in Denominators : DoScale(self, x, y, z, d)
    \/ Drop

SpecScale == InitScale /\ [][NextScale]_vars

-----------------------------------------------------------------------------
(* Properties of the intersection list *)

\* C1: after any sequence of new, with_intersections, push and
\* World/Group intersect with finite t, the entries are in ascending t order.
C1_SortedByT == AllFinite(xs) => SortedByT(xs)

\* a list gathered out of order from both objects, holding distinct t
C1_Witness ==
    /\ unordered
    /\ Len(xs) = MaxXs
    /\ {xs[i].object : i \in 1..Len(xs)} = IntObjs
    /\ xs[1].t.v < xs[Len(xs)].t.v

PositiveTs(s) == {s[i].t.v : i \in {j \in 1..Len(s) : Positive(s[j])}}

\* C2: get_hit and get_hit_index return the entry with the smallest t among
\* those with t > 0, None when there is none; never an entry with t <= 0.
C2_HitIsLowestPositive ==
    IF PositiveTs(xs) = {}
    THEN GetHit(xs) = None /\ GetHitIndex(xs) = 0
    ELSE /\ GetHit(xs) # None
         /\ GetHitIndex(xs) \in 1..Len(xs)
         /\ xs[GetHitIndex(xs)] = GetHit(xs)[1]
         /\ GetHit(xs)[1].t.v > 0
         /\ \A t \in PositiveTs(xs) : GetHit(xs)[1].t.v <= t

\* supplied out of order, with a zero t and a negative t in front of the hit
C2_Witness ==
    /\ unordered
    /\ Len(xs) = MaxXs
    /\ GetHitIndex(xs) = MaxXs
    /\ \E i \in 1..Len(xs) : xs[i].t.v = 0
    /\ \E i \in 1..Len(xs) : xs[i].t.v < 0

\* no positive t at all: the hit is None
C2_WitnessNone == Len(xs) > 0 /\ GetHit(xs) = None

\* C12: the sort places every intersection whose t is NaN after every
\* intersection with a finite t, however many NaN entries there are and in
\* whatever order they came, and the hit is never a NaN-t intersection.
C12_NaNLast ==
    /\ \A i, j \in 1..Len(xs) : (i < j /\ xs[i].t.nan) => xs[j].t.nan
    /\ GetHit(xs) # None => ~GetHit(xs)[1].t.nan

\* two NaN entries behind a finite one that was supplied after a NaN
C12_Witness ==
    /\ unordered
    /\ Len(xs) = MaxXs
    /\ ~xs[1].t.nan /\ xs[1].t.v < 0
    /\ xs[Len(xs) - 1].t.nan /\ xs[Len(xs)].t.nan

-----------------------------------------------------------------------------
(* Properties of the shading recursion *)

\* C4: color_at terminates and the nesting depth of color_at never exceeds
\* remaining + 1, every recursive call being made with remaining - 1.
C4_DepthBounded ==
    /\ [](stack # <<>> => Len(stack) <= stack[1].remaining + 1)
    /\ [][(stack # <<>> /\ Len(stack') > Len(stack)) =>
             stack'[Len(stack')].remaining = Top.remaining - 1]_vars
    /\ (stack # <<>>) ~> (result # None)

\* two fully reflective surfaces facing each other, at the deepest call
C4_Witness ==
    /\ scene[1].reflective = 1 /\ scene[2].reflective = 1
    /\ Len(stack) = MaxRemaining + 1
    /\ stack[1].remaining = MaxRemaining
    /\ Top.remaining = 0

RECURSIVE SurfaceSum(_, _)
SurfaceSum(comp, n) ==
    IF n = 0 THEN Black
    ELSE SurfaceSum(comp, n - 1) + Lighting(comp, n, IsShadowed(comp))

\* C5: for a material that is not both reflective and transparent shade_hit
\* returns (sum of lighting over all lights) + reflected + refracted, the
\* reflected and refracted colours added exactly once.
C5_SurfacePlusReflectedPlusRefracted ==
    (/\ stack # <<>>
     /\ Top.pc = "return"
     /\ HitOf(Top.ray).hit
     /\ ~(HitOf(Top.ray).reflective > 0 /\ HitOf(Top.ray).transparency > 0))
    => Top.acc = SurfaceSum(HitOf(Top.ray), lights) + Top.reflected + Top.refracted

-----------------------------------------------------------------------------
(* Properties of the containers walk *)

\* the containers list after the first k intersections have toggled it
RECURSIVE ContainersAfter(_, _)
ContainersAfter(s, k) ==
    IF k = 0 THEN <<>>
    ELSE LET c == ContainersAfter(s, k - 1)
             o == s[k].object
         IN  IF o \in Range(c) THEN SelectSeq(c, LAMBDA x : x # o)
             ELSE Append(c, o)

TopIndex(c) == IF c = <<>> THEN Vacuum ELSE RefractiveIndex(c[Len(c)])

\* the six intersections of the three nested glass spheres
NestedSpheres == <<GlassA, GlassB, GlassC, GlassB, GlassC, GlassA>>
NestedN1N2 == << <<10, 15>>, <<15, 20>>, <<20, 25>>, <<25, 25>>, <<25, 15>>, <<15, 10>> >>

ObjectsOf(s) == [i \in 1..Len(s) |-> s[i].object]

\* C3: n1 is the refractive index on top of the containers list just before
\* intersection i toggles it, n2 the one just after (1.0 when empty), the
\* walk stops at i; the nested glass spheres give the six documented pairs.
C3_N1N2 ==
    hc.pc = "done" =>
        /\ hc.rn1 = TopIndex(ContainersAfter(xs, hc.int_index - 1))
        /\ hc.rn2 = TopIndex(ContainersAfter(xs, hc.int_index))
        /\ hc.index = hc.int_index
        /\ hc.containers = ContainersAfter(xs, hc.int_index)
        /\ ObjectsOf(xs) = NestedSpheres =>
               <<hc.rn1, hc.rn2>> = NestedN1N2[hc.int_index]

\* the walk over the nested spheres finished at the fourth intersection
C3_Witness ==
    /\ hc.pc = "done"
    /\ ObjectsOf(xs) = NestedSpheres
    /\ hc.int_index = 4
    /\ <<hc.rn1, hc.rn2>> = <<25, 25>>

-----------------------------------------------------------------------------
(* Properties of objects and groups *)

\* every Object the program holds, with the objects nested in its groups
AllObjects ==
    LET held == (IF obj = None THEN <<>> ELSE Nodes(obj[1])) \o NodesEach(kept)
    IN  {held[i] : i \in 1..Len(held)}

InSync(o) ==
    /\ MatMul(o.transformation, o.inv_transformation) = Identity
    /\ MatMul(o.inv_transformation, o.transformation) = Identity
    /\ o.inv_transpose_transformation = Transpose(o.inv_transformation)

\* C6: after any sequence of constructors, fluent transforms, material
\* setters and group building, every Object's inv_transformation is the
\* inverse of its transformation and its inv_transpose_transformation is the
\* transpose of that inverse.
C6_MatricesInSync == \A o \in AllObjects : InSync(o)

\* a leaf inside a group that was transformed and given a material, whose
\* transformation is neither the identity nor its own inverse
C6_Witness ==
    /\ obj # None
    /\ IsGroup(obj[1])
    /\ budget.calls = 0
    /\ \E o \in AllObjects :
          /\ ~IsGroup(o)
          /\ o.material = "glass"
          /\ o.inv_transformation # o.transformation
          /\ o.inv_transpose_transformation # o.inv_transformation

TransformsOf(objects) == [i \in 1..Len(objects) |-> objects[i].transformation]

\* C7: after any sequence of new_group calls and fluent transforms on
\* groups, every leaf's stored transform is the product of the transforms
\* applied to its enclosing groups (outer and later ones on the left) times
\* the leaf's own, each applied exactly once; and intersecting the object
\* hands every leaf the world ray taken through the inverse of that product
\* once, the groups on the way forwarding the ray unchanged.
C7_GroupTransformsOnLeavesOnce ==
    /\ obj # None => TransformsOf(Leaves(obj[1])) = expected
    /\ TransformsOf(LeavesEach(kept)) = Flatten(keptExpected)
    /\ seen # None =>
          /\ Len(seen[1].local) = Len(expected)
          /\ \A i \in 1..Len(expected) :
                RayWithTransform(seen[1].local[i], expected[i]) = seen[1].ray

\* a group built around an already built group and a leaf, the inner group
\* transformed before it was wrapped and the outer one after, intersected
C7_Witness ==
    /\ obj # None
    /\ IsGroup(obj[1])
    /\ Len(obj[1].children) = 2
    /\ IsGroup(obj[1].children[1])
    /\ obj[1].children[1].children # <<>>
    /\ budget.calls = 0
    /\ expected[1] # expected[Len(expected)]
    /\ expected[Len(expected)] # Identity
    /\ seen # None
    /\ seen[1].local[1] # seen[1].ray

-----------------------------------------------------------------------------
(* Properties of the OBJ importer *)

\* C8: parsing and building from any text never aborts, and every malformed
\* line is counted in lines_ignored and skipped: it adds no vertex, normal
\* or face.
C8_TolerantParser ==
    /\ ~panicked
    /\ parser.lines_ignored >= fed.malformed
    /\ Len(parser.vertices) + Len(parser.normals) + Len(parser.faces)
           + fed.malformed <= fed.read

\* the fan triangles of the faces declared in a group (None: in no group),
\* in the order of the text
RECURSIVE TrianglesIn(_, _)
TrianglesIn(faces, group) ==
    IF faces = <<>> THEN <<>>
    ELSE (IF Head(faces).group = group
          THEN FanTriangulation(parser, Head(faces).vertices, FALSE)
          ELSE <<>>) \o TrianglesIn(Tail(faces), group)

\* the names of the groups that hold a face
GroupNames ==
    {parser.faces[i].group[1] :
        i \in {j \in 1..Len(parser.faces) : parser.faces[j].group # None}}

\* the built object and its direct children
ResultAndChildren == {obj[1]} \cup Range(obj[1].children)

\* C9: the sub-group built for a group X holds the fan triangles of all the
\* faces declared inside `g X`, and the triangles of the faces that precede
\* any g directive are direct children of the root group.
C9_FacesAccumulate ==
    obj # None =>
        /\ \A name \in GroupNames :
              \E g \in ResultAndChildren :
                  IsGroup(g) /\ g.children = TrianglesIn(parser.faces, Some(name))
        /\ Range(TrianglesIn(parser.faces, None)) \subseteq Range(obj[1].children)

IsLeaf(o) == ~IsGroup(o)

\* a group of triangles of the faces of the named group
IsSubGroupFor(g, name) ==
    /\ IsGroup(g)
    /\ g.children # <<>>
    /\ Range(g.children) \subseteq Range(TrianglesIn(parser.faces, Some(name)))

\* C10: build returns a single group (of triangles) if exactly one group
\* was produced, and otherwise a root group whose children are one
\* sub-group per named group plus the triangles of the ungrouped faces.
C10_SingleGroupOrRoot ==
    obj # None =>
        IF Cardinality(GroupNames) = 1
        THEN \E name \in GroupNames : IsSubGroupFor(obj[1], name)
        ELSE /\ IsGroup(obj[1])
             /\ SelectSeq(obj[1].children, IsLeaf) = TrianglesIn(parser.faces, None)
             /\ Len(SelectSeq(obj[1].children, IsGroup)) = Cardinality(GroupNames)
             /\ \A name \in GroupNames :
                   \E g \in Range(obj[1].children) : IsSubGroupFor(g, name)

\* a text with faces in two groups and a face in none has been built
C10_Witness ==
    /\ obj # None
    /\ Cardinality(GroupNames) = 2
    /\ TrianglesIn(parser.faces, None) # <<>>
    /\ Len(obj[1].children) >= 3

-----------------------------------------------------------------------------
(* Properties of the PPM text *)

\* the lines of the written text after the three header lines, the last
\* being what follows the last line break
PpmBody == Skip(Split(ppm[1], "\n"), 3)

\* the numbers of a line: its fields, but for the empty one after the last
\* separator
Numbers(line) ==
    LET fields == Split(line, " ")
    IN  IF fields[Len(fields)] = <<>> THEN SubSeq(fields, 1, Len(fields) - 1)
        ELSE fields

\* how many pixels the text holds up to the end of its line i
RECURSIVE PixelsUpTo(_, _)
PixelsUpTo(body, i) ==
    IF i = 0 THEN 0 ELSE PixelsUpTo(body, i - 1) + (Len(Numbers(body[i])) \div 3)

\* the pixels, counted from 1 in the order of the text, that a line break
\* follows
BreaksAfter ==
    {PixelsUpTo(PpmBody, i) : i \in 1..(Len(PpmBody) - 1)}

\* the values of the text in its order
RECURSIVE ValuesOf(_)
ValuesOf(body) ==
    IF body = <<>> THEN <<>>
    ELSE LET numbers == Numbers(Head(body))
         IN  [i \in 1..Len(numbers) |-> UnwrapOr(ParseUsize(numbers[i]), -1)]
             \o ValuesOf(Tail(body))

\* the 0-based column x is a fourth column of its row
BreakAfterFourthColumn(x) == (x + 1) % 4 = 0

\* C11: the written PPM holds the pixels in row-major order, separated by
\* single spaces, and a line break follows a pixel exactly when it is in a
\* fourth column (the 4th, 8th, ...) of its row.
C11_BreakEveryFourthColumn ==
    ppm # None =>
        /\ ValuesOf(PpmBody) = canvas[1].data
        /\ BreaksAfter =
               {k \in 1..(canvas[1].width * canvas[1].height) :
                   BreakAfterFourthColumn((k - 1) % canvas[1].width)}

\* C13: with remaining = 0, reflected_color and refracted_color return black
\* whatever the material: the call casts no secondary ray (no color_at runs
\* above it), both values are black, and no call ever holds a remaining
\* below 0.
C13_BlackAtZero ==
    \A i \in 1..Len(stack) :
        /\ stack[i].remaining >= 0
        /\ stack[i].remaining = 0 =>
               /\ i = Len(stack)
               /\ stack[i].reflected = Black
               /\ stack[i].refracted = Black

\* a recursive call with remaining = 0 on a reflective and transparent
\* material has evaluated both colours
C13_Witness ==
    /\ Len(stack) > 1
    /\ Top.remaining = 0
    /\ Top.pc = "fold"
    /\ HitOf(Top.ray).reflective > 0
    /\ HitOf(Top.ray).transparency > 0
    /\ ~HitOf(Top.ray).tir

\* C14: for a hit on a matte object (reflective = 0 and transparency = 0)
\* shade_hit returns exactly the sum over all lights of the lighting
\* result, for any number of lights (black when there is none).
Matte(comp) == comp.hit /\ comp.reflective = 0 /\ comp.transparency = 0

C14_MatteIsSumOfLighting ==
    \A i \in 1..Len(stack) :
        Matte(HitOf(stack[i].ray)) =>
            /\ stack[i].pc = "light" =>
                   stack[i].acc = SurfaceSum(HitOf(stack[i].ray), stack[i].light - 1)
            /\ stack[i].pc = "return" =>
                   stack[i].acc = SurfaceSum(HitOf(stack[i].ray), lights)

\* shade_hit has returned for a matte hit in a world of several lights
C14_Witness ==
    /\ stack # <<>>
    /\ Matte(HitOf(Top.ray))
    /\ Top.pc = "return"
    /\ lights = MaxLights
    /\ Top.acc > Black

\* a world without lights: the matte hit is black
C14_WitnessNoLight ==
    /\ stack # <<>>
    /\ Matte(HitOf(Top.ray))
    /\ Top.pc = "return"
    /\ lights = 0
    /\ Top.acc = Black

-----------------------------------------------------------------------------
(* Properties of is_shadowed *)

\* the intersections of the ray from the point toward the light at index k
\* with the world's objects, and the distance to that light
TowardLight(k) ==
    PlanesIntersect(RayNew(shadow.point, Normalize(shadow.lights[k] - shadow.point)),
                    shadow.objects, IntersectionsNew)
DistanceTo(k) == Magnitude(shadow.lights[k] - shadow.point)
Between(k) ==
    \E i \in 1..Len(TowardLight(k)) :
        /\ ~TowardLight(k)[i].t.nan
        /\ 0 < TowardLight(k)[i].t.v
        /\ TowardLight(k)[i].t.v < DistanceTo(k)

\* C15: is_shadowed(point) is true exactly when some intersection of the
\* ray from the point toward the first light has 0 < t < distance to that
\* light; the other lights are not consulted, and without lights it is false.
C15_ShadowedByFirstLight ==
    shadow.answer # None =>
        shadow.answer[1] = (shadow.lights # <<>> /\ Between(1))

\* shadowed from the first light although nothing stands before the second
C15_Witness ==
    /\ shadow.answer = Some(TRUE)
    /\ Len(shadow.lights) > 1
    /\ ~Between(Len(shadow.lights))
    /\ Len(shadow.objects) > 1

\* not shadowed from the first light although the second is blocked, with
\* an object exactly at the first light's distance
C15_WitnessLit ==
    /\ shadow.answer = Some(FALSE)
    /\ Len(shadow.lights) > 1
    /\ Between(Len(shadow.lights))
    /\ \E i \in 1..Len(TowardLight(1)) : TowardLight(1)[i].t.v = DistanceTo(1)

-----------------------------------------------------------------------------
(* Properties of group construction *)

\* C16: in the tree new_group returns, and after every later with_transform
\* or wrapping of it in further groups, no group below the root has zero
\* children, at any depth: no object held has an empty group among its
\* children.
C16_NoEmptySubgroup ==
    \A o \in AllObjects :
        \A i \in 1..Len(o.children) :
            ~(IsGroup(o.children[i]) /\ o.children[i].children = <<>>)

\* new_group was handed an empty group and an untouched leaf: the group it
\* returned holds the leaf alone
C16_Witness ==
    /\ obj # None
    /\ IsGroup(obj[1])
    /\ obj[1].material = DefaultMaterial
    /\ Len(obj[1].children) = 1
    /\ obj[1].children[1] = NewObject("Sphere")
    /\ budget = [leaves |-> MaxLeaves - 1, calls |-> MaxCalls - 2]

-----------------------------------------------------------------------------
(* Properties of the faces of the OBJ importer *)

\* the triangles (w1, w_i, w_(i+1)), i = 2..k-1, of a face of k entries, the
\* corners being the vertices the entries refer to
ExpectedFan(face) ==
    [i \in 2..(Len(face.vertices) - 1) |->
        WithMaterial(NewTri(parser.vertices[face.vertices[1].vertex],
                            parser.vertices[face.vertices[i].vertex],
                            parser.vertices[face.vertices[i + 1].vertex]),
                     DefaultMaterial)]

\* the i-th of the k - 2 triangles is ExpectedFan(face)[i + 1]
IsFanOf(tris, face) ==
    /\ Len(tris) = Len(face.vertices) - 2
    /\ \A i \in 1..Len(tris) : tris[i] = ExpectedFan(face)[i + 1]

RECURSIVE ExpectedFans(_)
ExpectedFans(faces) ==
    IF faces = <<>> THEN <<>>
    ELSE [i \in 1..(Len(Head(faces).vertices) - 2) |-> ExpectedFan(Head(faces))[i + 1]]
         \o ExpectedFans(Tail(faces))

\* C17: a face of k >= 3 entries is fan-triangulated into exactly k - 2
\* triangles (w1, w_i, w_(i+1)), i = 2..k-1, in that order, whose corners
\* are the referenced vertices; the object built from a text of faces in no
\* group holds these triangles face after face.
C17_FanTriangulation ==
    /\ \A i \in 1..Len(parser.faces) :
           /\ Len(parser.faces[i].vertices) >= 3
           /\ IsFanOf(FanTriangulation(parser, parser.faces[i].vertices, FALSE),
                      parser.faces[i])
    /\ (obj # None /\ GroupNames = {}) => obj[1].children = ExpectedFans(parser.faces)

\* a text with a pentagon and a triangle in no group has been built
C17_Witness ==
    /\ obj # None
    /\ GroupNames = {}
    /\ Len(parser.faces) = 2
    /\ Len(parser.faces[1].vertices) = 5
    /\ Len(obj[1].children) = 4

-----------------------------------------------------------------------------
(* Properties of the lines of the OBJ importer *)

IsNumber(s) == ParseUsize(s) # None

\* an entry of one of the forms i, i/t, i//n, i/t/n
IsOfFourForms(entry) ==
    LET items == Split(entry, "/")
    IN  \/ Len(items) = 1 /\ IsNumber(items[1])
        \/ Len(items) = 2 /\ IsNumber(items[1]) /\ IsNumber(items[2])
        \/ Len(items) = 3 /\ IsNumber(items[1]) /\ IsNumber(items[3])
                          /\ (items[2] = <<>> \/ IsNumber(items[2]))

\* what such an entry stands for: vertex i, and normal n when there is one
EntryMeaning(entry) ==
    LET items == Split(entry, "/")
    IN  [vertex |-> ParseUsize(items[1])[1],
         normal |-> IF Len(items) = 3 THEN Some(ParseUsize(items[3])[1]) ELSE None]

\* an f line of three or more entries, all of the four forms
IsFaceOfFourForms(line) ==
    LET cols == Split(line, " ")
    IN  /\ cols[1] = <<"f">>
        /\ Len(cols) >= 4
        /\ \A i \in 2..Len(cols) : IsOfFourForms(cols[i])

FaceMeaning(line) ==
    LET cols == Split(line, " ")
    IN  [i \in 1..(Len(cols) - 1) |-> EntryMeaning(cols[i + 1])]

\* the step is one iteration of the loop of parse
ReadsLine == fed'.read = fed.read + 1

\* C18: every face entry of one of the forms i, i/t, i//n and i/t/n is
\* accepted: reading a face line of such entries pushes the face of the
\* vertex indices i, with the normal indices n where an n is present and no
\* normal for i and i/t, whatever t is.
C18_FaceEntryForms ==
    [][(ReadsLine /\ IsFaceOfFourForms(fed'.last)) =>
          /\ ~panicked'
          /\ parser'.faces = Append(parser.faces,
                                    [vertices |-> FaceMeaning(fed'.last),
                                     group |-> parser.current_group])]_vars

\* the line's leading token is v, vn, f or g and the line parses
ParsesSuccessfully(line) ==
    LET lead == Split(line, " ")[1]
    IN  \/ lead = <<"v">> /\ ParseVertexLine(line) # None
        \/ lead = <<"v", "n">> /\ ParseNormalLine(line) # None
        \/ lead = <<"f">> /\ ~FaceLinePanics(line) /\ Len(Split(line, " ")) >= 4
        \/ lead = <<"g">>

\* s grew by one element at its end
Pushed(s, t) == Len(t) = Len(s) + 1 /\ SubSeq(t, 1, Len(s)) = s

\* what the line did to the parser
LineEffect(self, next, line) ==
    LET lead == Split(line, " ")[1]
    IN  IF ParsesSuccessfully(line)
        THEN /\ next.lines_ignored = self.lines_ignored
             /\ IF lead = <<"v">> THEN Pushed(self.vertices, next.vertices)
                                 ELSE next.vertices = self.vertices
             /\ IF lead = <<"v", "n">> THEN Pushed(self.normals, next.normals)
                                      ELSE next.normals = self.normals
             /\ IF lead = <<"f">> THEN Pushed(self.faces, next.faces)
                                 ELSE next.faces = self.faces
             /\ IF lead = <<"g">> THEN next.current_group # None
                                 ELSE next.current_group = self.current_group
        ELSE /\ next.lines_ignored = self.lines_ignored + 1
             /\ next.vertices = self.vertices
             /\ next.normals = self.normals
             /\ next.faces = self.faces
             /\ next.current_group = self.current_group

\* C19: a line whose leading token is v, vn, f or g and which parses pushes
\* a vertex, a normal or a face or starts a named group, and leaves
\* lines_ignored as it is; every other line adds exactly one to
\* lines_ignored and leaves vertices, normals, faces and the current group
\* unchanged.
C19_LineAccounting ==
    [][ReadsLine => (~panicked' /\ LineEffect(parser, parser', fed'.last))]_vars

-----------------------------------------------------------------------------
(* Properties of the transforms objects are built with *)

\* C20: a singular transform is rejected when it is applied: the call ends
\* in a panic and yields no Object, so the stored transformation of every
\* Object that exists has a non-zero determinant.
C20_NoSingularTransform ==
    /\ \A o \in AllObjects : Determinant(o.transformation.n) # 0
    /\ panicked => obj = None

\* after two other calls on objects, a scale with a zero factor was applied:
\* the program has panicked and no Object came out of the call
C20_Witness ==
    /\ panicked
    /\ obj = None
    /\ budget.leaves < MaxLeaves
    /\ budget.calls <= MaxCalls - 3

-----------------------------------------------------------------------------
(* Properties of the containers walk over objects built alike *)

\* C21: the walk matches an object against the containers list by address
\* and not by value: an iteration removes from the list nothing but the
\* object of the intersection it looks at, so an intersection with one of
\* two objects of identical shape, transform and material never removes
\* the other.
C21_AddressIdentity ==
    [][(hc.pc = "loop" /\ hc'.pc \in {"loop", "exit"}) =>
          \A i \in 1..Len(hc.containers) :
              hc.containers[i] # xs[hc.index].object =>
                  \E j \in 1..Len(hc'.containers) :
                      hc'.containers[j] = hc.containers[i]]_vars

\* the ray entered the twin, then entered and left A: the twin is still the
\* only container
C21_Witness ==
    /\ hc.pc = "loop"
    /\ hc.index = 4
    /\ Len(xs) >= 4
    /\ xs[1].object = GlassTwin /\ xs[2].object = GlassA /\ xs[3].object = GlassA
    /\ ValueOf(GlassTwin) = ValueOf(GlassA)
    /\ hc.containers = <<GlassTwin>>

-----------------------------------------------------------------------------
(* Properties of the fluent transform calls *)

\* the step is a fluent transform call that returned an Object which holds
\* a leaf: every leaf's history gained a factor
IsTransformStep == obj # None /\ obj' # None /\ expected' # expected

\* the matrix the call was made with
Applied(m) == expected' = [i \in 1..Len(expected) |-> MatMul(m, expected[i])]

C22_WitnessGroup ==
    /\ obj # None
    /\ IsGroup(obj[1])
    /\ obj[1].transformation = Identity
    /\ Len(obj[1].children) = 1
    /\ obj[1].children[1].transformation = Scale(1, 2, 3)

-----------------------------------------------------------------------------
(* Properties of the normal of a HitComputation *)

-----------------------------------------------------------------------------
(* Properties of the lighting of a point light *)

\* C24: whenever L . N <= 0, the boundary L . N = 0 included, the diffuse and
\* the specular term are both zero and the colour returned is the ambient
\* term alone, whatever the eye vector and the material are.
C24_AmbientOnlyAwayFromLight ==
    (call.fn = "lighting" /\ call.light_dot_normal <= 0) =>
        /\ call.value.diffuse = 0
        /\ call.value.specular = 0
        /\ call.value.color = call.value.ambient

-----------------------------------------------------------------------------
(* Properties of the stripe pattern *)

\* the integer k with k <= n / 10 < k + 1
IsFloorOf(k, n) == 10 * k <= n /\ n < 10 * k + 10

\* C25 as stated: the first colour where floor(|x|) is even and the second
\* where it is odd, for every x and whatever y and z are.
C25_FloorOfAbsParity ==
    call.fn = "pattern_at" =>
        \A k \in 0..MaxStripeX :
            IsFloorOf(k, Abs(call.x)) =>
                call.value = (IF k % 2 = 0 THEN WhiteBlack.a ELSE WhiteBlack.b)

\* C25 amended: the first colour where |floor(x)| is even and the second
\* where it is odd, for every x and whatever y and z are.
C25_AbsOfFloorParity ==
    call.fn = "pattern_at" =>
        \A k \in (0 - MaxStripeX - 1)..MaxStripeX :
            IsFloorOf(k, call.x) =>
                call.value = (IF Abs(k) % 2 = 0 THEN WhiteBlack.a ELSE WhiteBlack.b)

\* x = -0.1 off the x axis: floor(x) = -1, the second colour
C25_Witness ==
    /\ call.fn = "pattern_at"
    /\ call.x = -1
    /\ call.y # 0 /\ call.z # 0
    /\ call.value = WhiteBlack.b

-----------------------------------------------------------------------------
(* Properties of the pixels of a Canvas *)

InRange(self, pos) == pos[1] < self.width /\ pos[2] < self.height

Positions(self) == {<<x, y>> : x \in 0..(self.width - 1), y \in 0..(self.height - 1)}

\* C26: only positions with x < width and y < height address a pixel:
\* set_pixel at a position with x >= width or y >= height changes no pixel
\* and pixel_at there returns None; set_pixel at a position in range changes
\* that pixel and no other.
C26_OnlyPositionsInRange ==
    [][(sets' = sets - 1) =>
          /\ call'.fn = "pixel_at" =>
                 (~InRange(canvas[1], call'.pos) => call'.value = None)
          /\ call'.fn = "set_pixel" =>
                 IF InRange(canvas[1], call'.pos)
                 THEN /\ PixelAt(canvas'[1], call'.pos) = Some(ColorScale(call'.color))
                      /\ \A q \in Positions(canvas[1]) \ {call'.pos} :
                             PixelAt(canvas'[1], q) = PixelAt(canvas[1], q)
                 ELSE canvas' = canvas]_vars

-----------------------------------------------------------------------------
(* Properties of the number of triangles of the built object *)

\* the sum over the faces of (number of vertex entries - 2)
RECURSIVE TrianglesOwed(_)
TrianglesOwed(faces) ==
    IF faces = <<>> THEN 0
    ELSE (Len(Head(faces).vertices) - 2) + TrianglesOwed(Tail(faces))

\* C27: no parsed face is lost by build: the number of triangle leaves of the
\* returned object is the sum over the parsed faces of (number of vertex
\* entries - 2), whatever the mix of ungrouped faces, named groups and
\* repeated faces of a group.
C27_NoFaceLost ==
    obj # None => Len(Leaves(obj[1])) = TrianglesOwed(parser.faces)

-----------------------------------------------------------------------------
(* Properties of what a fluent transform call leaves alone *)

\* the shape of an object, with the points a triangle holds
ShapeOf(o) == <<o.shape, o.points>>

\* C28: a fluent transform of any Object, group or not, changes transform
\* matrices only: the object's own material is unchanged, and for a group
\* the number and order of its descendants and the shape and material of
\* every descendant leaf are unchanged.
C28_TransformsOnly ==
    [][IsTransformStep =>
          /\ obj'[1].material = obj[1].material
          /\ Len(Nodes(obj'[1])) = Len(Nodes(obj[1]))
          /\ \A i \in 1..Len(Nodes(obj[1])) :
                 Nodes(obj'[1])[i].shape = Nodes(obj[1])[i].shape
          /\ Len(Leaves(obj'[1])) = Len(Leaves(obj[1]))
          /\ \A i \in 1..Len(Leaves(obj[1])) :
                 /\ ShapeOf(Leaves(obj'[1])[i]) = ShapeOf(Leaves(obj[1])[i])
                 /\ Leaves(obj'[1])[i].material = Leaves(obj[1])[i].material]_vars

-----------------------------------------------------------------------------
(* Properties of the number of color_at calls *)

\* C29: within one shade_hit call reflected_color and refracted_color are
\* each evaluated at most once (an evaluation under way is that of the first
\* step of the fold), so the color_at calls caused by one primary ray cast with
\* depth bound remaining number at most 2^(remaining + 1) - 1, whatever the
\* number of lights.
C29_ColorAtCallsBounded ==
    stack # <<>> =>
        /\ Top.pc \in {"reflected_color", "refracted_color"} => Top.light = 1
        /\ casts <= 2^(stack[1].remaining + 1) - 1

-----------------------------------------------------------------------------
(* Properties of scaling an object *)

\* C30: scale(sx, sy, sz) with all three factors non-zero applied to a
\* non-group Object always succeeds without a panic, and the invertibility
\* test rejects a matrix only when its determinant is exactly zero.
C30_NonZeroScaleSucceeds ==
    call.fn = "scale" =>
        /\ (\A i \in 1..3 : call.factors[i] # 0) => ~IsPanic(call.value)
        /\ IsPanic(call.value) => call.determinant[1] = 0

====
